---- MODULE Spec2Model ----
(***************************************************************************)
(* State-machine model of the blog front end (React + Supabase client).    *)
(* Every page component is modelled by its React state, every handler by   *)
(* one action for its synchronous part and one action per backend reply    *)
(* (the continuation after an await).  Backend tables are modelled as far  *)
(* as the handlers read or write them.                                     *)
(***************************************************************************)
EXTENDS Integers, Sequences, FiniteSets, TLC

\* ------------------------------------------------------------------------
\* Universe
\* ------------------------------------------------------------------------
None == "none"
Users == {"u1", "u2"}
Posts == {"p1", "p2"}
\* posts.user_id: the author of each post (never updated by the client).
PostOwner(p) == IF p = "p1" THEN "u1" ELSE "u2"

\* Routes of App.tsx (the :id parameter of /post and /edit is kept apart).
PublicPaths == {"/", "/post", "/search", "/login", "/signup"}
ProtectedPaths == {"/write", "/edit", "/mypage"}
Paths == PublicPaths \cup ProtectedPaths

VARIABLES
  \* AuthContext
  authLoading,    \* useAuth().loading
  user,           \* useAuth().user (None or a user id)
  \* router
  path,           \* location.pathname
  navFrom,        \* location.state.from
  toast,          \* the last notification shown
  \* LoginPage
  rememberMe,     \* the 'remember me' checkbox
  lp_loading,     \* LoginPage loading flag
  lp_req,         \* sign-in requests in flight: a set of [remember, from]
  lp_timer,       \* pending setTimeout(navigate(from)): None or a path
  lp_outcome,     \* backend's answer to the last sign-in attempt
  \* image pipeline (ImageUpload, MyPage avatar)
  img_last,       \* the last validateImageFile call: a set of [file, result]
  img_jobs,       \* uploads in progress: a set of [site, file, stage]
  editAvatarFile, \* MyPage editAvatarFile: a set holding at most one file
  rz_last,        \* the last direct resizeImage call: a set of [w, h, maxW, maxH, out]
  \* backend tables
  srv_posts,      \* ids of the rows of posts
  srv_postLikes,  \* rows of post_likes: a set of <<user, post>>
  \* PostDetailPage
  pd_mounted,     \* a PostDetailPage instance is mounted
  pd_id,          \* useParams().id
  pd_post,        \* post state: None or the id of the loaded post
  pd_loading,     \* loading state
  likesCount,
  isLiked,
  likingInProgress,
  pd_reqs,        \* backend requests of PostDetailPage in flight:
                  \* a set of [kind, post, usr, live, slot]; live = issued by
                  \* the instance that is mounted now
  pd_lastToggle,  \* how the last handleLikeToggle call ended
  \* EditPage
  ep_mounted,
  ep_id,          \* useParams().id
  ep_post,        \* post state: None or the id of the post the form holds
  ep_initialLoading,
  ep_loading,
  ep_reqs,        \* requests of EditPage in flight: a set of [kind, post, usr, live]
  \* MyPage
  mp_mounted,
  mp_posts,       \* posts state: the ids listed under 'my posts'
  mp_reqs,        \* requests of MyPage in flight: a set of [kind, post, usr, live]
  \* backend tables of the comments
  srv_comments,     \* rows of post_comments: [id, post, parent, owner, content, deleted]
  srv_commentLikes, \* rows of comment_likes: a set of <<user, comment id>>
  \* CommentSection
  cs_comments,    \* comments state: views of top-level comments, replies nested
  cs_newComment,
  cs_replyingTo,  \* id of the comment or reply answered to, 0 for null
  cs_replyContent,
  cs_showReplies, \* ids of the comments whose replies are expanded
  cs_editingId,   \* id of the comment or reply in edit mode, 0 for null
  cs_editContent,
  cs_loading,
  cs_submitting,
  cs_hasMore,
  cs_offset,
  cs_reqs,        \* requests of CommentSection in flight
  cs_timers,      \* pending setTimeout(fetchReplies) calls of handleSubmitReply
  \* WritePage, EditPage: generateSlug
  slug_last,      \* the last generateSlug call: a set of [title, now, slug]
  \* SignupPage
  su_loading,
  su_reqs,        \* signUp calls in flight: [password, typed, confirm, live]
  su_timer,       \* the pending setTimeout(navigate('/login'))
  \* Navbar
  nb_searchQuery, \* searchQuery state
  nb_recent,      \* recentSearches state: a sequence of trimmed queries
  ls_recent,      \* localStorage 'recentSearches', parsed: a sequence
  \* WritePage
  wp_loading,
  wp_reqs,        \* inserts of WritePage in flight: [usr, typed, tags, live]
  srv_written,    \* rows of posts inserted by WritePage: [owner, tags]
  \* HomePage
  hp_posts,       \* posts state: a sequence of [id, score], score being
                  \* likes_count + comments_count as fetched
  hp_sortBy,
  hp_page,
  hp_hasMore,
  hp_loading,
  hp_loadingMore,
  hp_observed,    \* the IntersectionObserver observes the scroll target
  hp_sources,     \* the fetches (page, sort) whose rows make up posts, in order
  hp_reqs,        \* fetchPosts calls in flight: [page, sort, reset]
  srv_feedCount,  \* number of public posts, with ids 1..srv_feedCount in the
                  \* order of their creation
  srv_feedScore,  \* likes plus comments of every public post
  \* SearchPage
  sp_query,       \* searchParams.get('q') || ''
  sp_posts,       \* ids of the posts in state
  sp_profiles,    \* ids of the profiles in state
  sp_loading,
  sp_reqs         \* the queries of the searchContent calls in flight

authVars == <<authLoading, user>>
routeVars == <<path, navFrom>>
loginVars == <<rememberMe, lp_loading, lp_req, lp_timer, lp_outcome>>

imageVars == <<img_last, img_jobs, editAvatarFile, rz_last>>

srvCommentVars == <<srv_comments, srv_commentLikes>>
srvVars == <<srv_posts, srv_postLikes, srvCommentVars>>
csState == <<cs_comments, cs_newComment, cs_replyingTo, cs_replyContent, cs_showReplies,
             cs_editingId, cs_editContent, cs_loading, cs_submitting, cs_hasMore, cs_offset>>
\* CommentSection is a child of PostDetailPage
csVars == <<csState, cs_reqs, cs_timers>>
pdState == <<pd_mounted, pd_id, pd_post, pd_loading, likesCount, isLiked, likingInProgress>>
pdVars == <<pdState, pd_reqs, pd_lastToggle, csVars>>

\* the backend tables and the pages that show them
epVars == <<ep_mounted, ep_id, ep_post, ep_initialLoading, ep_loading, ep_reqs>>
mpVars == <<mp_mounted, mp_posts, mp_reqs>>
dataVars == <<srvVars, pdVars, epVars, mpVars>>

\* the pages and components beside the post pages
slugVars == <<slug_last>>
suVars == <<su_loading, su_reqs, su_timer>>
nbVars == <<nb_searchQuery, nb_recent, ls_recent>>
wpVars == <<wp_loading, wp_reqs, srv_written>>
hpState == <<hp_posts, hp_sortBy, hp_page, hp_hasMore, hp_loading, hp_loadingMore, hp_observed,
             hp_sources>>
hpVars == <<hpState, hp_reqs, srv_feedCount, srv_feedScore>>
spVars == <<sp_query, sp_posts, sp_profiles, sp_loading, sp_reqs>>
siteVars == <<slugVars, suVars, nbVars, wpVars, hpVars, spVars>>

vars == <<authVars, routeVars, toast, loginVars, imageVars, dataVars, siteVars>>

\* ------------------------------------------------------------------------
\* App.tsx: ProtectedRoute
\* ------------------------------------------------------------------------
ProtectedRoute_LoadingIgnored(loading, u) ==
  IF u = None THEN "redirect" ELSE "children"

ProtectedRoute(loading, u) ==
  IF loading THEN "spinner"
  ELSE IF u = None THEN "redirect"
  ELSE "children"

\* What <Routes> renders for the current location.
RouteElement ==
  IF path \in ProtectedPaths THEN ProtectedRoute(authLoading, user) ELSE "public"

LoginPageMounted == path = "/login"

\* Leaving /login unmounts LoginPage: its React state is dropped.  A request
\* or timer it started lives on.
LoginStateAfter(newPath) ==
  IF path = "/login" /\ newPath # "/login"
  THEN /\ rememberMe' = FALSE
       /\ lp_loading' = FALSE
       /\ lp_outcome' = None
  ELSE UNCHANGED <<rememberMe, lp_loading, lp_outcome>>

\* <Navigate to="/login" state={{from}} replace/> rendered by ProtectedRoute,
\* together with the effect's toast.
ProtectedRedirect ==
  /\ RouteElement = "redirect"
  /\ path' = "/login"
  /\ navFrom' = path
  /\ toast' = "needLogin"
  /\ UNCHANGED <<authVars, loginVars, imageVars, siteVars, dataVars>>

\* ------------------------------------------------------------------------
\* PostDetailPage
\* ------------------------------------------------------------------------
LikeKinds == {"likeInsert", "likeDelete"}
MaxLikeReqs == 2
\* requests of the three post pages that may be in flight together
MaxInFlight == 4
InFlight == Cardinality(pd_reqs) + Cardinality(ep_reqs) + Cardinality(mp_reqs)

\* The post, its like button and (for the author) its delete button are
\* rendered once loading is false and a post is in state.
PdRendered == pd_mounted /\ ~pd_loading /\ pd_post # None

\* Texts are kept by their lengths: core is the length from the first to the
\* last character that is not white space, space the white space around it.
EmptyText == [space |-> 0, core |-> 0]
\* String.prototype.length
TextLength(t) == t.space + t.core
\* String.prototype.trim
Trim(t) == [space |-> 0, core |-> t.core]
\* !text.trim()
IsBlank(t) == TextLength(Trim(t)) = 0

CsReadKinds == {"fetchComments", "fetchMore", "fetchReplies"}

\* A request of CommentSection.  post and usr are postId and user of the
\* render the handler closed over, snap and shown its comments and
\* showReplies; after names what the handler does once the request is done.
CsReq(kind, slot, p, u, target, parent, content, liked, after, snap, shown, live) ==
  [kind |-> kind, slot |-> slot, post |-> p, usr |-> u, target |-> target,
   parent |-> parent, content |-> content, liked |-> liked, after |-> after,
   snap |-> snap, shown |-> shown, live |-> live]

\* fetchComments() of the render with postId p and user u
CsFetchComments(p, u, after, parent, snap, shown, live) ==
  CsReq("fetchComments", 0, p, u, 0, parent, EmptyText, FALSE, after, snap, shown, live)

\* fetchComments(true) of a render with comments snap and offset offset
CsFetchMore(p, u, offset, snap, shown, live) ==
  CsReq("fetchMore", 0, p, u, offset, 0, EmptyText, FALSE, "none", snap, shown, live)

\* fetchReplies(parentId) of a render with comments snap and showReplies shown
CsFetchReplies(p, u, parent, after, snap, shown, live) ==
  CsReq("fetchReplies", 0, p, u, 0, parent, EmptyText, FALSE, after, snap, shown, live)

\* The continuation of an unmounted instance sets no state: what it closed
\* over no longer matters.
CsDead(r) == [r EXCEPT !.live = FALSE, !.snap = {}, !.shown = {}]

\* CommentSection is unmounted with its parent; reqs are its requests still
\* in flight.  The writes among them still reach the backend and raise their
\* toasts; a read or a timeout of the unmounted instance only leads to state
\* updates that are dropped (the failure toast of such a read is left out).
CsUnmountedFrom(reqs) ==
  /\ cs_comments' = {}
  /\ cs_newComment' = EmptyText
  /\ cs_replyingTo' = 0
  /\ cs_replyContent' = EmptyText
  /\ cs_showReplies' = {}
  /\ cs_editingId' = 0
  /\ cs_editContent' = EmptyText
  /\ cs_loading' = TRUE
  /\ cs_submitting' = FALSE
  /\ cs_hasMore' = FALSE
  /\ cs_offset' = 0
  /\ cs_reqs' = {CsDead(r) : r \in {q \in reqs : q.kind \notin CsReadKinds}}
  /\ cs_timers' = {}

CsUnmounted == CsUnmountedFrom(cs_reqs)

\* The effect of CommentSection on [postId]: fetchComments()
CsEffectReqs(id, u) == {CsFetchComments(id, u, "none", 0, {}, {}, TRUE)}

PdReq(kind, p, u, slot) ==
  [kind |-> kind, post |-> p, usr |-> u, live |-> TRUE, slot |-> slot]

\* The effect on [id, user]: fetchPost() and fetchLikesData() start (the
\* increment_views rpc changes nothing that is modelled).
PdEffectReqs(id, u) ==
  {PdReq("fetchPost", id, None, 0), PdReq("likesCount", id, u, 0)}

\* Requests of an unmounted instance stay in flight; their state updates are
\* dropped, their toasts, navigations and backend writes are not.  The two
\* reads of fetchLikesData only set state, so nothing of them is left to model
\* once the instance is gone.
Orphaned(reqs) ==
  {[r EXCEPT !.live = FALSE] : r \in {q \in reqs : q.kind \notin {"likesCount", "likeRow"}}}

\* PostDetailPage is unmounted; reqs are its requests still in flight.
PdUnmountedFrom(reqs) ==
  /\ pd_mounted' = FALSE
  /\ pd_id' = None
  /\ pd_post' = None
  /\ pd_loading' = TRUE
  /\ likesCount' = 0
  /\ isLiked' = FALSE
  /\ likingInProgress' = FALSE
  /\ pd_reqs' = Orphaned(reqs)
  /\ pd_lastToggle' = None
  /\ CsUnmounted

PdUnmounted == PdUnmountedFrom(pd_reqs)

\* The router shows /post/:id: a first visit mounts the page (loading
\* spinner, effect runs); a change of :id alone keeps the mounted instance
\* and its state, and runs the effect again.
PdShown(id) ==
  IF pd_mounted /\ pd_id = id
  THEN UNCHANGED pdVars
  ELSE /\ pd_mounted' = TRUE
       /\ pd_id' = id
       /\ pd_reqs' = pd_reqs \cup PdEffectReqs(id, user)
       \* <CommentSection postId={id!} /> of a rendered page sees the new id
       /\ cs_reqs' = IF PdRendered THEN cs_reqs \cup CsEffectReqs(id, user) ELSE cs_reqs
       /\ UNCHANGED <<pd_post, pd_loading, likesCount, isLiked, likingInProgress,
                      pd_lastToggle, csState, cs_timers>>

EpUnmountedFrom(reqs) ==
  /\ ep_mounted' = FALSE
  /\ ep_id' = None
  /\ ep_post' = None
  /\ ep_initialLoading' = TRUE
  /\ ep_loading' = FALSE
  /\ ep_reqs' = {[r EXCEPT !.live = FALSE] : r \in reqs}

EpUnmounted == EpUnmountedFrom(ep_reqs)

\* A fetchUserData of an unmounted MyPage only sets state: nothing of it is
\* left to model.
MpUnmountedFrom(reqs) ==
  /\ mp_mounted' = FALSE
  /\ mp_posts' = {}
  /\ mp_reqs' = {[r EXCEPT !.live = FALSE] : r \in {q \in reqs : q.kind # "fetch"}}

MpUnmounted == MpUnmountedFrom(mp_reqs)

\* useAuth().user becomes u: the effects that depend on user run again.
PdSeesUser(u) ==
  /\ pd_reqs' = IF pd_mounted /\ u # user
                THEN pd_reqs \cup PdEffectReqs(pd_id, u)
                ELSE pd_reqs
  /\ UNCHANGED <<pdState, pd_lastToggle, csVars>>

\* typed and tags are, for an update, the number of tags in the input and the
\* number of tags sent
EpReq(kind, p, u, typed, tags) ==
  [kind |-> kind, post |-> p, usr |-> u, live |-> TRUE, typed |-> typed, tags |-> tags]
MpReq(kind, p, u) == [kind |-> kind, post |-> p, usr |-> u, live |-> TRUE]

\* EditPage's effect depends on [id, user, navigate], MyPage's on [user].
EpSeesUser(u) ==
  /\ ep_reqs' = IF ep_mounted /\ u # user
                THEN ep_reqs \cup {EpReq("fetch", ep_id, u, 0, 0)}
                ELSE ep_reqs
  /\ UNCHANGED <<ep_mounted, ep_id, ep_post, ep_initialLoading, ep_loading>>

MpSeesUser(u) ==
  /\ mp_reqs' = IF mp_mounted /\ u # user /\ u # None
                THEN mp_reqs \cup {MpReq("fetch", None, u)}
                ELSE mp_reqs
  /\ UNCHANGED <<mp_mounted, mp_posts>>

PagesUnmounted ==
  /\ PdUnmounted
  /\ EpUnmounted
  /\ MpUnmounted
  /\ UNCHANGED srvVars

PagesSeeUser(u) ==
  /\ PdSeesUser(u)
  /\ EpSeesUser(u)
  /\ MpSeesUser(u)
  /\ UNCHANGED srvVars

\* The visitor follows a link or enters a URL.
Goto(p) ==
  /\ p # path
  /\ path' = p
  /\ navFrom' = None
  /\ LoginStateAfter(p)
  /\ UNCHANGED <<authVars, toast, lp_req, lp_timer, imageVars, siteVars, dataVars>>

\* AuthContext finishes restoring the session.
AuthResolved(u) ==
  /\ authLoading
  /\ authLoading' = FALSE
  /\ user' = u
  /\ PagesSeeUser(u)
  /\ UNCHANGED <<routeVars, toast, loginVars, imageVars, siteVars>>

\* Navbar.handleSignOut
handleSignOut ==
  /\ ~authLoading
  /\ user # None
  /\ user' = None
  /\ toast' = "signedOut"
  /\ path' = "/"
  /\ navFrom' = None
  /\ LoginStateAfter("/")
  /\ PagesUnmounted
  /\ UNCHANGED <<authLoading, lp_req, lp_timer, imageVars, siteVars>>

\* ------------------------------------------------------------------------
\* LoginPage
\* ------------------------------------------------------------------------
SignInReplies == {"ok", "invalidCredentials", "emailNotConfirmed", "otherError"}

ToggleRememberMe ==
  /\ LoginPageMounted
  /\ rememberMe' = ~rememberMe
  /\ UNCHANGED <<authVars, routeVars, toast, lp_loading, lp_req, lp_timer, lp_outcome, imageVars, siteVars, dataVars>>

\* the variant that always goes to the home page
LoginFrom_Home == "/"

\* from = location.state?.from || '/'
LoginFrom == IF navFrom = None THEN "/" ELSE navFrom

\* handleSubmit up to the await of signInWithPassword.
LoginSubmit(filled) ==
  /\ LoginPageMounted
  /\ ~lp_loading
  /\ lp_req = {}
  /\ IF ~filled
     THEN /\ toast' = "fillEmailAndPassword"
          /\ UNCHANGED <<lp_loading, lp_req, lp_outcome>>
     ELSE /\ lp_loading' = TRUE
          /\ lp_req' = {[remember |-> rememberMe,
                         from |-> LoginFrom]}
          /\ lp_outcome' = None
          /\ UNCHANGED toast
  /\ UNCHANGED <<authVars, routeVars, rememberMe, lp_timer, imageVars, siteVars, dataVars>>

\* The branch of handleSubmit taken with 'remember me' unchecked: the error
\* of the reply is thrown.
LoginErrorThrown(remember, reply) == ~remember /\ reply # "ok"

\* handleSubmit after the await: the reply of signInWithPassword arrives.
LoginReply(reply, u) ==
  \E req \in lp_req :
  /\ lp_req' = lp_req \ {req}
  /\ IF LoginPageMounted
     THEN /\ lp_outcome' = reply
          /\ lp_loading' = FALSE
     ELSE UNCHANGED <<lp_outcome, lp_loading>>
  /\ IF reply = "ok"
     THEN user' = u /\ authLoading' = FALSE /\ PagesSeeUser(u)
     ELSE UNCHANGED <<authVars, dataVars>>
  /\ IF LoginErrorThrown(req.remember, reply)
     THEN /\ toast' = IF reply \in {"invalidCredentials", "emailNotConfirmed"}
                      THEN "wrongEmailOrPassword"
                      ELSE "loginFailed"
          /\ UNCHANGED lp_timer
     ELSE /\ toast' = "loginSuccess"
          /\ lp_timer' = req.from
  /\ UNCHANGED <<routeVars, rememberMe, imageVars, siteVars>>

\* setTimeout(() => navigate(from, {replace: true}), 500)
LoginTimerFires ==
  /\ lp_timer # None
  /\ lp_timer' = None
  /\ path' = lp_timer
  /\ navFrom' = None
  /\ LoginStateAfter(lp_timer)
  /\ UNCHANGED <<authVars, toast, lp_req, imageVars, siteVars, dataVars>>


\* ------------------------------------------------------------------------
\* lib/imageUtils.ts
\* ------------------------------------------------------------------------
ALLOWED_IMAGE_TYPES == {"image/jpeg", "image/jpg", "image/png", "image/gif", "image/webp"}
MAX_FILE_SIZE == 5 * 1024 * 1024
MAX_IMAGE_WIDTH == 1920
MAX_IMAGE_HEIGHT == 1920
AVATAR_MAX == 500

TypeError == "jpg, png, gif, webp only"
SizeError == "file too large, 5MB at most"

validateImageFile_SizeInclusive(file) ==
  IF file.type \notin ALLOWED_IMAGE_TYPES THEN [valid |-> FALSE, error |-> TypeError]
  ELSE IF file.size >= MAX_FILE_SIZE THEN [valid |-> FALSE, error |-> SizeError]
  ELSE [valid |-> TRUE, error |-> None]

validateImageFile(file) ==
  IF file.type \notin ALLOWED_IMAGE_TYPES THEN [valid |-> FALSE, error |-> TypeError]
  ELSE IF file.size > MAX_FILE_SIZE THEN [valid |-> FALSE, error |-> SizeError]
  ELSE [valid |-> TRUE, error |-> None]

\* Math.round of the non-negative quotient a / b.
RoundDiv(a, b) == (2 * a + b) \div (2 * b)

\* The width and height computed by img.onload (lines 36-56).
ResizedDims(w, h, maxW, maxH) ==
  IF w > h
  THEN IF w > maxW THEN <<maxW, RoundDiv(h * maxW, w)>> ELSE <<w, h>>
  ELSE IF h > maxH THEN <<RoundDiv(w * maxH, h), maxH>> ELSE <<w, h>>

\* resizeImage: the promise's result for a decoded image of w x h pixels.
\* 'encoded' is whether canvas.toBlob could encode; a canvas without pixels
\* always yields a null blob, and the promise rejects.
resizeImage(w, h, maxW, maxH, encoded) ==
  IF w <= maxW /\ h <= maxH
  THEN [resolved |-> TRUE, unchanged |-> TRUE, w |-> w, h |-> h]
  ELSE LET d == ResizedDims(w, h, maxW, maxH) IN
       IF d[1] = 0 \/ d[2] = 0 \/ ~encoded
       THEN [resolved |-> FALSE, unchanged |-> FALSE, w |-> d[1], h |-> d[2]]
       ELSE [resolved |-> TRUE, unchanged |-> FALSE, w |-> d[1], h |-> d[2]]

\* ------------------------------------------------------------------------
\* Inputs of the image pipeline
\* ------------------------------------------------------------------------
FileTypes == ALLOWED_IMAGE_TYPES \cup {"image/svg+xml", "application/pdf"}
FileSizes == {MAX_FILE_SIZE, MAX_FILE_SIZE + 1}
Files == [type : FileTypes, size : FileSizes]
\* Pixel sizes of decoded images.
ImageDims == {1, 2, 500, 501, 1920, 1921, 3841, 4000}
\* Pixel sizes of the images decoded in the upload pipeline.
PipelineDims == {1, 500, 4000}
\* maxWidth/maxHeight arguments of a direct call.
ResizeBounds == {MAX_IMAGE_WIDTH, AVATAR_MAX, 50}
UploadSites == {"thumbnail", "avatar", "editAvatar"}
MaxJobs == 1

SiteBound(site) == IF site = "thumbnail" THEN MAX_IMAGE_WIDTH ELSE AVATAR_MAX

PageWithUploadMounted == ~authLoading /\ user # None

\* ImageUpload.handleFileUpload / MyPage.handleAvatarUpload up to the await
\* of resizeImage.
StartUpload(site, file) ==
  /\ site \in {"thumbnail", "avatar"}
  /\ PageWithUploadMounted
  /\ Cardinality(img_jobs) < MaxJobs
  /\ LET v == validateImageFile(file) IN
       /\ img_last' = {[file |-> file, result |-> v]}
       /\ IF ~v.valid
          THEN /\ toast' = v.error
               /\ UNCHANGED img_jobs
          ELSE /\ img_jobs' = img_jobs \cup
                    {[site |-> site, file |-> file, stage |-> "resize"]}
               /\ UNCHANGED toast
  /\ UNCHANGED <<authVars, routeVars, loginVars, editAvatarFile, rz_last, dataVars, siteVars>>

\* MyPage.handleEditAvatarSelect / handleEditAvatarDrop
handleEditAvatarSelect(file) ==
  /\ PageWithUploadMounted
  /\ LET v == validateImageFile(file) IN
       /\ img_last' = {[file |-> file, result |-> v]}
       /\ IF ~v.valid
          THEN /\ toast' = v.error
               /\ UNCHANGED editAvatarFile
          ELSE /\ editAvatarFile' = {file}
               /\ UNCHANGED toast
  /\ UNCHANGED <<authVars, routeVars, loginVars, img_jobs, rz_last, dataVars, siteVars>>

\* MyPage.handleSaveProfile with a new avatar, up to the await of resizeImage.
handleSaveProfile ==
  /\ PageWithUploadMounted
  /\ Cardinality(img_jobs) < MaxJobs
  /\ \E file \in editAvatarFile :
       img_jobs' = img_jobs \cup
          {[site |-> "editAvatar", file |-> file, stage |-> "resize"]}
  /\ UNCHANGED <<authVars, routeVars, toast, loginVars, img_last, editAvatarFile, rz_last, dataVars, siteVars>>

\* resizeImage settles for a job: the decoded image has w x h pixels.
ResizeSettles(w, h, encoded) ==
  \E job \in img_jobs :
    /\ job.stage = "resize"
    /\ LET r == resizeImage(w, h, SiteBound(job.site), SiteBound(job.site), encoded) IN
         IF r.resolved
         THEN /\ img_jobs' = (img_jobs \ {job}) \cup
                   {[job EXCEPT !.stage = "upload"]}
              /\ UNCHANGED toast
         ELSE /\ img_jobs' = img_jobs \ {job}
              /\ toast' = "uploadFailed"
    /\ UNCHANGED <<authVars, routeVars, loginVars, img_last, editAvatarFile, rz_last, dataVars, siteVars>>

\* supabase.storage upload answers.
UploadSettles(ok) ==
  \E job \in img_jobs :
    /\ job.stage = "upload"
    /\ img_jobs' = img_jobs \ {job}
    /\ toast' = IF ok THEN "uploaded" ELSE "uploadFailed"
    /\ editAvatarFile' = IF ok /\ job.site = "editAvatar" THEN {} ELSE editAvatarFile
    /\ UNCHANGED <<authVars, routeVars, loginVars, img_last, rz_last, dataVars, siteVars>>

\* A call of the exported resizeImage with arbitrary bounds.
ResizeCall(w, h, maxW, maxH, encoded) ==
  /\ rz_last' = {[w |-> w, h |-> h, maxW |-> maxW, maxH |-> maxH,
                  out |-> resizeImage(w, h, maxW, maxH, encoded)]}
  /\ UNCHANGED <<authVars, routeVars, toast, loginVars, img_last, img_jobs, editAvatarFile, dataVars, siteVars>>

\* ------------------------------------------------------------------------
\* PostDetailPage: navigation, handlers and backend replies
\* ------------------------------------------------------------------------
\* the state of everything that is not PostDetailPage, the router or the backend
pdFrame == <<loginVars, imageVars, siteVars, srvCommentVars>>

\* The visitor goes to /post/:id (a link, the history).
PdOpen(id) ==
  /\ id # pd_id
  /\ InFlight + 2 <= MaxInFlight
  /\ path' = "/post"
  /\ navFrom' = None
  /\ PdShown(id)
  /\ EpUnmounted
  /\ MpUnmounted
  /\ UNCHANGED <<authVars, toast, srvVars, pdFrame>>

\* The visitor leaves the page that is shown (back to the list).
LeavePage ==
  /\ pd_mounted \/ ep_mounted \/ mp_mounted
  /\ path' = "/"
  /\ navFrom' = None
  /\ PagesUnmounted
  /\ UNCHANGED <<authVars, toast, pdFrame>>

isAuthor == user # None /\ user = PostOwner(pd_post)

LikeReqs == {r \in pd_reqs : r.kind \in LikeKinds}
FreeSlot == CHOOSE n \in 0..MaxLikeReqs : \A r \in LikeReqs : r.slot # n

\* the guard of line 126
LikeToggleGuarded_Never == FALSE

LikeToggleGuarded == likingInProgress

\* handleLikeToggle up to its await.
handleLikeToggle ==
  /\ PdRendered
  /\ IF user = None
     THEN /\ toast' = "needLogin"
          /\ path' = "/login"
          /\ navFrom' = None
          /\ PdUnmounted
     ELSE IF LikeToggleGuarded
     THEN /\ pd_lastToggle' = "guarded"
          /\ UNCHANGED <<routeVars, toast, pdState, pd_reqs, csVars>>
     ELSE /\ Cardinality(LikeReqs) < MaxLikeReqs
          /\ likingInProgress' = TRUE
          /\ pd_reqs' = pd_reqs \cup
               {PdReq(IF isLiked THEN "likeDelete" ELSE "likeInsert", pd_id, user, FreeSlot)}
          /\ pd_lastToggle' = "started"
          /\ UNCHANGED <<routeVars, toast, pd_mounted, pd_id, pd_post, pd_loading,
                         likesCount, isLiked, csVars>>
  /\ UNCHANGED <<authVars, srvVars, epVars, mpVars, pdFrame>>

\* likingInProgress left set when the request failed
LikingInProgressAfter_CatchSkipped(ok) == ~ok

\* finally { setLikingInProgress(false) }
LikingInProgressAfter(ok) == FALSE

\* The backend answers a post_likes insert or delete.  An insert of a row
\* that exists violates the table's uniqueness and fails; any request may
\* fail.
LikeReply(ok) ==
  \E req \in LikeReqs :
    /\ ok => (req.kind = "likeDelete" \/ <<req.usr, req.post>> \notin srv_postLikes)
    /\ pd_reqs' = pd_reqs \ {req}
    /\ srv_postLikes' =
         IF ~ok THEN srv_postLikes
         ELSE IF req.kind = "likeInsert" THEN srv_postLikes \cup {<<req.usr, req.post>>}
         ELSE srv_postLikes \ {<<req.usr, req.post>>}
    /\ toast' = IF ok THEN toast ELSE "likeFailed"
    /\ IF req.live
       THEN /\ likingInProgress' = LikingInProgressAfter(ok)
            /\ isLiked' = IF ok THEN req.kind = "likeInsert" ELSE isLiked
            /\ likesCount' = IF ~ok THEN likesCount
                             ELSE IF req.kind = "likeInsert" THEN likesCount + 1
                             ELSE likesCount - 1
       ELSE UNCHANGED <<likingInProgress, isLiked, likesCount>>
    /\ UNCHANGED <<pd_mounted, pd_id, pd_post, pd_loading, pd_lastToggle, csVars>>
    /\ UNCHANGED <<authVars, routeVars, srv_posts, epVars, mpVars, pdFrame>>

\* fetchPost after its await.
FetchPostReply(ok) ==
  \E req \in pd_reqs :
    /\ req.kind = "fetchPost"
    /\ ok => req.post \in srv_posts
    /\ IF ok
       THEN /\ pd_reqs' = pd_reqs \ {req}
            /\ IF req.live
               THEN /\ pd_post' = req.post
                    /\ pd_loading' = FALSE
                    \* the first render with a post mounts CommentSection
                    /\ cs_reqs' = IF PdRendered
                                  THEN cs_reqs
                                  ELSE cs_reqs \cup CsEffectReqs(pd_id, user)
               ELSE UNCHANGED <<pd_post, pd_loading, cs_reqs>>
            /\ UNCHANGED <<routeVars, toast, pd_mounted, pd_id, likesCount, isLiked,
                           likingInProgress, pd_lastToggle, csState, cs_timers,
                           epVars, mpVars>>
       ELSE \* toast.error, navigate('/'): whatever page is shown is left
            /\ toast' = "postLoadFailed"
            /\ path' = "/"
            /\ navFrom' = None
            /\ PdUnmountedFrom(pd_reqs \ {req})
            /\ EpUnmounted
            /\ MpUnmounted
    /\ UNCHANGED <<authVars, srvVars, pdFrame>>

PostLikeCount(p) == Cardinality({l \in srv_postLikes : l[2] = p})

\* fetchLikesData after its first await: the count arrives (null on error),
\* and the query for the user's own like starts.
LikesCountReply(ok) ==
  \E req \in pd_reqs :
    /\ req.kind = "likesCount"
    /\ pd_reqs' = (pd_reqs \ {req}) \cup
         (IF req.usr = None THEN {}
          ELSE {[kind |-> "likeRow", post |-> req.post, usr |-> req.usr,
                 live |-> req.live, slot |-> 0]})
    /\ likesCount' = IF req.live
                     THEN (IF ok THEN PostLikeCount(req.post) ELSE 0)
                     ELSE likesCount
    /\ UNCHANGED <<pd_mounted, pd_id, pd_post, pd_loading, isLiked, likingInProgress,
                   pd_lastToggle, csVars>>
    /\ UNCHANGED <<authVars, routeVars, toast, srvVars, epVars, mpVars, pdFrame>>

\* fetchLikesData after its second await: setIsLiked(!!data).
LikeRowReply(ok) ==
  \E req \in pd_reqs :
    /\ req.kind = "likeRow"
    /\ pd_reqs' = pd_reqs \ {req}
    /\ isLiked' = IF req.live
                  THEN ok /\ <<req.usr, req.post>> \in srv_postLikes
                  ELSE isLiked
    /\ UNCHANGED <<pd_mounted, pd_id, pd_post, pd_loading, likesCount, likingInProgress,
                   pd_lastToggle, csVars>>
    /\ UNCHANGED <<authVars, routeVars, toast, srvVars, epVars, mpVars, pdFrame>>

\* Another session likes or unlikes a post.
OtherSessionLikes(u, p) ==
  /\ srv_postLikes' = IF <<u, p>> \in srv_postLikes
                      THEN srv_postLikes \ {<<u, p>>}
                      ELSE srv_postLikes \cup {<<u, p>>}
  /\ UNCHANGED <<authVars, routeVars, toast, srv_posts, pdVars, epVars, mpVars,
                 pdFrame>>

\* ------------------------------------------------------------------------
\* Post writes: PostDetailPage.handleDelete, EditPage, MyPage.handleDeletePost
\* ------------------------------------------------------------------------
\* The rows a write request selects: .eq('id', post), and .eq('user_id', usr)
\* where the request carries that filter.
WriteTargets(w) ==
  {p \in Posts : p = w.post /\ (w.filtered => PostOwner(p) = w.usr)}

\* The rows the backend changes: the spec has the author-only rule enforced
\* by the server.
ServerApplies(w) == {p \in WriteTargets(w) : PostOwner(p) = w.usr} \cap srv_posts

PostWrite(op, page, p, u, filtered) ==
  [op |-> op, page |-> page, post |-> p, usr |-> u, filtered |-> filtered]

\* The delete query of PostDetailPage filters on id only; the update query
\* of EditPage and the delete query of MyPage filter on id and user_id.
PdDeleteFiltered == FALSE
EpUpdateFiltered == TRUE
MpDeleteFiltered == TRUE

\* The post updates and deletes the client has sent and not yet heard of
PostWritesInFlight ==
  {PostWrite("delete", "detail", r.post, r.usr, PdDeleteFiltered) :
     r \in {q \in pd_reqs : q.kind = "deletePost"}}
  \cup {PostWrite("update", "edit", r.post, r.usr, EpUpdateFiltered) :
     r \in {q \in ep_reqs : q.kind = "update"}}
  \cup {PostWrite("delete", "mypage", r.post, r.usr, MpDeleteFiltered) :
     r \in {q \in mp_reqs : q.kind = "delete"}}

\* PostDetailPage.handleDelete, confirmed in the dialog.  The button is
\* rendered for the author of the post held in state; the request names the
\* route parameter.
handleDelete ==
  /\ PdRendered
  /\ isAuthor
  /\ InFlight + 1 <= MaxInFlight
  /\ pd_reqs' = pd_reqs \cup {PdReq("deletePost", pd_id, user, 0)}
  /\ UNCHANGED <<authVars, routeVars, toast, srv_posts, srv_postLikes, pdState,
                 pd_lastToggle, csVars, epVars, mpVars, pdFrame>>

DeleteReply(ok) ==
  \E req \in pd_reqs :
    /\ req.kind = "deletePost"
    /\ IF ok
       THEN /\ srv_posts' = srv_posts \
                 ServerApplies(PostWrite("delete", "detail", req.post, req.usr, PdDeleteFiltered))
            /\ toast' = "postDeleted"
            /\ path' = "/"
            /\ navFrom' = None
            /\ PdUnmountedFrom(pd_reqs \ {req})
            /\ EpUnmounted
            /\ MpUnmounted
       ELSE /\ toast' = "postDeleteFailed"
            /\ pd_reqs' = pd_reqs \ {req}
            /\ UNCHANGED <<routeVars, srv_posts, pdState, pd_lastToggle, csVars,
                           epVars, mpVars>>
    /\ UNCHANGED <<authVars, srv_postLikes, pdFrame>>

\* The visitor goes to /edit/:id; ProtectedRoute renders EditPage for a
\* signed-in user only.  A change of :id alone keeps the mounted instance.
EpOpen(id) ==
  /\ ProtectedRoute(authLoading, user) = "children"
  /\ id # ep_id
  /\ InFlight + 1 <= MaxInFlight
  /\ path' = "/edit"
  /\ navFrom' = None
  /\ ep_mounted' = TRUE
  /\ ep_id' = id
  /\ ep_reqs' = ep_reqs \cup {EpReq("fetch", id, user, 0, 0)}
  /\ UNCHANGED <<ep_post, ep_initialLoading, ep_loading>>
  /\ PdUnmounted
  /\ MpUnmounted
  /\ UNCHANGED <<authVars, toast, srvVars, pdFrame>>

\* EditPage.fetchPost after its await
EpFetchReply(ok) ==
  \E req \in ep_reqs :
    /\ req.kind = "fetch"
    /\ ok => req.post \in srv_posts
    /\ IF ok /\ PostOwner(req.post) = req.usr
       THEN /\ ep_reqs' = ep_reqs \ {req}
            /\ IF req.live
               THEN ep_post' = req.post /\ ep_initialLoading' = FALSE
               ELSE UNCHANGED <<ep_post, ep_initialLoading>>
            /\ UNCHANGED <<routeVars, toast, ep_mounted, ep_id, ep_loading, pdVars, mpVars>>
       ELSE \* not the author, or the query failed: toast.error, navigate('/')
            /\ toast' = IF ok THEN "noPermission" ELSE "postLoadFailed"
            /\ path' = "/"
            /\ navFrom' = None
            /\ EpUnmountedFrom(ep_reqs \ {req})
            /\ PdUnmounted
            /\ MpUnmounted
    /\ UNCHANGED <<authVars, srvVars, pdFrame>>

\* The form of EditPage is on screen.
EpFormShown == ep_mounted /\ ~ep_initialLoading /\ ep_post # None

\* The tag input is kept as the sequence of its comma-separated pieces, each
\* by its length after trim (0 for an empty or blank piece).
MaxTags == 5
TagFilled(piece) == piece > 0
\* the tags typed: tags.split(',').map(trim).filter(length > 0)
TypedTags(input) == SelectSeq(input, TagFilled)

\* tagArray of handleSubmit: the tags typed, .slice(0, 5)
TagArray(input) ==
  SubSeq(TypedTags(input), 1,
         IF Len(TypedTags(input)) < MaxTags THEN Len(TypedTags(input)) ELSE MaxTags)

\* EditPage.handleSubmit up to its await (the button is disabled while
\* loading); form.filled says that title and content are not blank,
\* form.tags is the tag input
EpHandleSubmit(form) ==
  /\ EpFormShown
  /\ ~ep_loading
  /\ user # None
  /\ IF ~form.filled
     THEN toast' = "fillTitleAndContent" /\ UNCHANGED <<ep_loading, ep_reqs>>
     ELSE IF Len(TagArray(form.tags)) > MaxTags
     THEN toast' = "tooManyTags" /\ UNCHANGED <<ep_loading, ep_reqs>>
     ELSE /\ InFlight + 1 <= MaxInFlight
          /\ ep_loading' = TRUE
          /\ ep_reqs' = ep_reqs \cup
               {EpReq("update", ep_id, user, Len(TypedTags(form.tags)),
                      Len(TagArray(form.tags)))}
          /\ UNCHANGED toast
  /\ UNCHANGED <<authVars, routeVars, srv_posts, srv_postLikes, ep_mounted, ep_id,
                 ep_post, ep_initialLoading, pdVars, mpVars, pdFrame>>

EpUpdateReply(ok) ==
  \E req \in ep_reqs :
    /\ req.kind = "update"
    /\ IF ok
       THEN \* toast.success, navigate(`/post/${id}`)
            /\ toast' = "postUpdated"
            /\ path' = "/post"
            /\ navFrom' = None
            /\ EpUnmountedFrom(ep_reqs \ {req})
            /\ PdShown(req.post)
            /\ MpUnmounted
       ELSE /\ toast' = "postUpdateFailed"
            /\ ep_reqs' = ep_reqs \ {req}
            /\ ep_loading' = IF req.live THEN FALSE ELSE ep_loading
            /\ UNCHANGED <<routeVars, ep_mounted, ep_id, ep_post, ep_initialLoading,
                           pdVars, mpVars>>
    /\ UNCHANGED <<authVars, srvVars, pdFrame>>

\* The visitor goes to /mypage.
MpOpen ==
  /\ ProtectedRoute(authLoading, user) = "children"
  /\ ~mp_mounted
  /\ InFlight + 1 <= MaxInFlight
  /\ path' = "/mypage"
  /\ navFrom' = None
  /\ mp_mounted' = TRUE
  /\ mp_posts' = {}
  /\ mp_reqs' = mp_reqs \cup {MpReq("fetch", None, user)}
  /\ PdUnmounted
  /\ EpUnmounted
  /\ UNCHANGED <<authVars, toast, srvVars, pdFrame>>

\* MyPage.fetchUserData after its awaits
MpFetchReply(ok) ==
  \E req \in mp_reqs :
    /\ req.kind = "fetch"
    /\ mp_reqs' = mp_reqs \ {req}
    /\ IF ok
       THEN /\ mp_posts' = {p \in srv_posts : PostOwner(p) = req.usr}
            /\ UNCHANGED toast
       ELSE /\ toast' = "userDataFailed"
            /\ UNCHANGED mp_posts
    /\ UNCHANGED <<authVars, routeVars, srvVars, mp_mounted, pdVars, epVars, pdFrame>>

\* MyPage.handleDeletePost, confirmed in the dialog, on a post of the
\* 'my posts' tab
handleDeletePost(postId) ==
  /\ mp_mounted
  /\ postId \in mp_posts
  /\ InFlight + 1 <= MaxInFlight
  /\ mp_reqs' = mp_reqs \cup {MpReq("delete", postId, user)}
  /\ UNCHANGED <<authVars, routeVars, toast, srv_posts, srv_postLikes, mp_mounted, mp_posts,
                 pdVars, epVars, pdFrame>>

MpDeleteReply(ok) ==
  \E req \in mp_reqs :
    /\ req.kind = "delete"
    /\ IF ok
       THEN /\ srv_posts' = srv_posts \
                 ServerApplies(PostWrite("delete", "mypage", req.post, req.usr, MpDeleteFiltered))
            /\ toast' = "postDeleted"
            \* await fetchUserData()
            /\ mp_reqs' = (mp_reqs \ {req}) \cup
                 (IF req.live THEN {MpReq("fetch", None, req.usr)} ELSE {})
       ELSE /\ toast' = "postDeleteFailed"
            /\ mp_reqs' = mp_reqs \ {req}
            /\ UNCHANGED srv_posts
    /\ UNCHANGED <<authVars, routeVars, srv_postLikes, mp_mounted, mp_posts,
                   pdVars, epVars, pdFrame>>

\* ------------------------------------------------------------------------
\* CommentSection
\* ------------------------------------------------------------------------
COMMENTS_PER_PAGE == 20
\* the limit of the three length checks and of the textareas
MaxCommentLength == 1000
\* length of a profiles.username
UsernameLen == 1
\* rows of post_comments
MaxComments == 4
\* requests and timeouts of CommentSection that may be pending when a handler
\* starts another request
MaxCsInFlight == 2

\* the state of everything that is not CommentSection or its backend tables
csFrame == <<authVars, routeVars, srv_posts, srv_postLikes, pdState, pd_reqs, pd_lastToggle,
             epVars, mpVars, loginVars, imageVars, siteVars>>

CommentLikeCount(id) == Cardinality({l \in srv_commentLikes : l[2] = id})

\* A reply as fetchReplies builds it for user u.
ReplyView(row, u) ==
  [id |-> row.id, owner |-> row.owner, content |-> row.content, deleted |-> row.deleted,
   likesCount |-> CommentLikeCount(row.id),
   isLiked |-> u # None /\ <<u, row.id>> \in srv_commentLikes]

\* A top-level comment as fetchComments builds it for user u; the reply count
\* takes every row with that parent_id.
CommentView(row, u) ==
  [id |-> row.id, owner |-> row.owner, content |-> row.content, deleted |-> row.deleted,
   likesCount |-> CommentLikeCount(row.id),
   isLiked |-> u # None /\ <<u, row.id>> \in srv_commentLikes,
   repliesCount |-> Cardinality({r \in srv_comments : r.parent = row.id}),
   replies |-> {}]

\* The id the backend gives the next row.
NextCommentId == Cardinality(srv_comments) + 1

CommentInserts == {r \in cs_reqs : r.kind = "insertComment"}
CommentLikeReqs == {r \in cs_reqs : r.kind = "toggleLike"}
CsFreeSlot == CHOOSE n \in 1..(MaxCsInFlight + 1) :
                \A r \in cs_reqs : r.slot # n
CsRoom == Cardinality(cs_reqs) + Cardinality(cs_timers) < MaxCsInFlight

\* The replies on screen under comment c.
ShownReplies(c) == IF c.id \in cs_showReplies THEN c.replies ELSE {}

\* What is rendered as the body of a comment: the placeholder of a deleted
\* comment, the edit textarea, or the content.
CommentBody_EditFirst(c) ==
  IF cs_editingId = c.id THEN "editor"
  ELSE IF c.deleted THEN "placeholder"
  ELSE "content"

CommentBody(c) ==
  IF c.deleted THEN "placeholder"
  ELSE IF cs_editingId = c.id THEN "editor"
  ELSE "content"

\* the same for a reply
ReplyBody(r) ==
  IF r.deleted THEN "placeholder"
  ELSE IF cs_editingId = r.id THEN "editor"
  ELSE "content"

\* The edit and delete buttons of a comment, and of a reply.
CommentOwnerButtons(c) == user # None /\ user = c.owner /\ ~c.deleted
ReplyOwnerButtons(r) == user # None /\ user = r.owner

\* The reply box under a comment or a reply.
ReplyBoxShown(x) == cs_replyingTo = x.id /\ user # None /\ ~x.deleted

\* The top-level comments of post p, and those of them that
\* .order('created_at', {ascending: false}).range(offset, offset +
\* COMMENTS_PER_PAGE - 1) selects: ids grow with created_at.
TopLevelComments(p) == {row \in srv_comments : row.post = p /\ row.parent = 0}
CommentsPage(p, offset) ==
  {row \in TopLevelComments(p) :
     LET before == Cardinality({o \in TopLevelComments(p) : o.id > row.id})
     IN before >= offset /\ before <= offset + COMMENTS_PER_PAGE - 1}

\* fetchComments(), the first page, after its awaits
CsFetchCommentsReply(ok) ==
  \E req \in cs_reqs :
    /\ req.kind = "fetchComments"
    /\ LET rows == CommentsPage(req.post, 0) IN
         IF req.live /\ ok
         THEN /\ cs_hasMore' = (Cardinality(rows) = COMMENTS_PER_PAGE)
              /\ cs_comments' = {CommentView(row, req.usr) : row \in rows}
              /\ cs_offset' = COMMENTS_PER_PAGE
         ELSE UNCHANGED <<cs_hasMore, cs_comments, cs_offset>>
    /\ toast' = IF ok THEN toast ELSE "commentsLoadFailed"
    /\ cs_loading' = IF req.live THEN FALSE ELSE cs_loading
    \* the handler that awaited fetchComments goes on
    /\ cs_timers' = IF req.after = "replyTimer" /\ req.live
                    THEN cs_timers \cup {[req EXCEPT !.kind = "timer", !.after = "none"]}
                    ELSE cs_timers
    /\ cs_submitting' = IF req.after # "none" /\ req.live THEN FALSE ELSE cs_submitting
    /\ cs_reqs' = cs_reqs \ {req}
    /\ UNCHANGED <<cs_newComment, cs_replyingTo, cs_replyContent, cs_showReplies,
                   cs_editingId, cs_editContent, srvCommentVars, csFrame>>

\* the 'load more' button: fetchComments(true) up to its await
ClickLoadMore ==
  /\ PdRendered
  /\ ~cs_loading
  /\ cs_comments # {}
  /\ cs_hasMore
  /\ CsRoom
  /\ cs_reqs' = cs_reqs \cup
       {CsFetchMore(pd_id, user, cs_offset, cs_comments, cs_showReplies, TRUE)}
  /\ UNCHANGED <<csState, cs_timers, toast, srvCommentVars, csFrame>>

\* fetchComments(true) after its awaits: the page at the offset of the render
\* of the click is put behind the comments of that render
CsFetchMoreReply(ok) ==
  \E req \in cs_reqs :
    /\ req.kind = "fetchMore"
    /\ LET rows == CommentsPage(req.post, req.target) IN
         IF req.live /\ ok
         THEN /\ cs_hasMore' = (Cardinality(rows) = COMMENTS_PER_PAGE)
              /\ cs_comments' = req.snap \cup {CommentView(row, req.usr) : row \in rows}
              /\ cs_offset' = req.target + COMMENTS_PER_PAGE
         ELSE UNCHANGED <<cs_hasMore, cs_comments, cs_offset>>
    /\ toast' = IF ok THEN toast ELSE "commentsLoadFailed"
    /\ cs_loading' = IF req.live THEN FALSE ELSE cs_loading
    /\ cs_reqs' = cs_reqs \ {req}
    /\ UNCHANGED <<cs_newComment, cs_replyingTo, cs_replyContent, cs_showReplies,
                   cs_editingId, cs_editContent, cs_submitting, cs_timers, srvCommentVars,
                   csFrame>>

\* setTimeout(() => fetchReplies(parentId), 100) of handleSubmitReply
CsReplyTimerFires ==
  \E t \in cs_timers :
    /\ cs_timers' = cs_timers \ {t}
    /\ cs_reqs' = cs_reqs \cup
         {CsFetchReplies(t.post, t.usr, t.parent, "none", t.snap, t.shown, t.live)}
    /\ UNCHANGED <<csState, toast, srvCommentVars, csFrame>>

\* fetchReplies(parentId) after its awaits: the replies are put into the
\* comments the call closed over.
CsFetchRepliesReply(ok) ==
  \E req \in cs_reqs :
    /\ req.kind = "fetchReplies"
    /\ LET rows == {row \in srv_comments : row.parent = req.parent}
           views == {ReplyView(row, req.usr) : row \in rows}
       IN IF req.live /\ ok
          THEN /\ cs_comments' = {IF c.id = req.parent THEN [c EXCEPT !.replies = views] ELSE c :
                                    c \in req.snap}
               /\ cs_showReplies' = req.shown \cup {req.parent}
          ELSE UNCHANGED <<cs_comments, cs_showReplies>>
    /\ toast' = IF ok THEN toast ELSE "repliesLoadFailed"
    /\ cs_submitting' = IF req.after # "none" /\ req.live THEN FALSE ELSE cs_submitting
    /\ cs_reqs' = cs_reqs \ {req}
    /\ UNCHANGED <<cs_newComment, cs_replyingTo, cs_replyContent, cs_editingId, cs_editContent,
                   cs_loading, cs_hasMore, cs_offset, cs_timers, srvCommentVars, csFrame>>

\* the length check of handleSubmitComment, handleSubmitReply, handleEditComment
TooLong_Trimmed(t) == TextLength(Trim(t)) > MaxCommentLength

TooLong(t) == TextLength(t) > MaxCommentLength

\* onChange of the new-comment textarea
SetNewComment(t) ==
  /\ PdRendered
  /\ user # None
  /\ t # cs_newComment
  /\ cs_newComment' = t
  /\ UNCHANGED <<cs_comments, cs_replyingTo, cs_replyContent, cs_showReplies, cs_editingId,
                 cs_editContent, cs_loading, cs_submitting, cs_hasMore, cs_offset, cs_reqs,
                 cs_timers, toast, srvCommentVars, csFrame>>

\* handleSubmitComment up to its await (the button is disabled while
\* submitting and for a blank text)
handleSubmitComment ==
  /\ PdRendered
  /\ user # None
  /\ ~cs_submitting
  /\ ~IsBlank(cs_newComment)
  /\ IF TooLong(cs_newComment)
     THEN /\ toast' = "commentTooLong"
          /\ UNCHANGED <<cs_submitting, cs_reqs>>
     ELSE /\ CsRoom
          /\ Cardinality(srv_comments) < MaxComments
          /\ cs_submitting' = TRUE
          /\ cs_reqs' = cs_reqs \cup
               {CsReq("insertComment", CsFreeSlot, pd_id, user, 0, 0, Trim(cs_newComment),
                      FALSE, "none", {}, {}, TRUE)}
          /\ UNCHANGED toast
  /\ UNCHANGED <<cs_comments, cs_newComment, cs_replyingTo, cs_replyContent, cs_showReplies,
                 cs_editingId, cs_editContent, cs_loading, cs_hasMore, cs_offset, cs_timers,
                 srvCommentVars, csFrame>>

\* The reply button of a comment or a reply: opens the box with '@username '
\* in it, or closes it.
ToggleReplyBox(x) ==
  /\ ~x.deleted
  /\ IF cs_replyingTo = x.id
     THEN cs_replyingTo' = 0 /\ cs_replyContent' = EmptyText
     ELSE /\ cs_replyingTo' = x.id
          /\ cs_replyContent' = [space |-> 1, core |-> 1 + UsernameLen]
  /\ UNCHANGED <<cs_comments, cs_newComment, cs_showReplies, cs_editingId, cs_editContent,
                 cs_loading, cs_submitting, cs_hasMore, cs_offset, cs_reqs, cs_timers,
                 toast, srvCommentVars, csFrame>>

ClickReply ==
  /\ PdRendered
  /\ \E c \in cs_comments : ToggleReplyBox(c) \/ \E r \in ShownReplies(c) : ToggleReplyBox(r)

\* onChange of the reply textarea
SetReplyContent(t) ==
  /\ PdRendered
  /\ \E c \in cs_comments : ReplyBoxShown(c) \/ \E r \in ShownReplies(c) : ReplyBoxShown(r)
  /\ t # cs_replyContent
  /\ cs_replyContent' = t
  /\ UNCHANGED <<cs_comments, cs_newComment, cs_replyingTo, cs_showReplies, cs_editingId,
                 cs_editContent, cs_loading, cs_submitting, cs_hasMore, cs_offset, cs_reqs,
                 cs_timers, toast, srvCommentVars, csFrame>>

\* handleSubmitReply(parentId) up to its await
handleSubmitReply(parentId) ==
  /\ IF TooLong(cs_replyContent)
     THEN /\ toast' = "replyTooLong"
          /\ UNCHANGED <<cs_submitting, cs_reqs>>
     ELSE /\ CsRoom
          /\ Cardinality(srv_comments) < MaxComments
          /\ cs_submitting' = TRUE
          /\ cs_reqs' = cs_reqs \cup
               {CsReq("insertComment", CsFreeSlot, pd_id, user, 0, parentId,
                      Trim(cs_replyContent), FALSE, "none", cs_comments, cs_showReplies, TRUE)}
          /\ UNCHANGED toast
  /\ UNCHANGED <<cs_comments, cs_newComment, cs_replyingTo, cs_replyContent, cs_showReplies,
                 cs_editingId, cs_editContent, cs_loading, cs_hasMore, cs_offset, cs_timers,
                 srvCommentVars, csFrame>>

\* The parent the submit button of the box under reply r of comment c passes.
ReplyBoxParent_OfReply(c, r) == r.id

ReplyBoxParent(c, r) == c.id

\* The submit button of a reply box (disabled while submitting and for a
\* blank text)
SubmitReplyBox ==
  /\ PdRendered
  /\ ~cs_submitting
  /\ ~IsBlank(cs_replyContent)
  /\ \E c \in cs_comments :
       \/ ReplyBoxShown(c) /\ handleSubmitReply(c.id)
       \/ \E r \in ShownReplies(c) : ReplyBoxShown(r) /\ handleSubmitReply(ReplyBoxParent(c, r))

\* The backend answers an insert of handleSubmitComment or handleSubmitReply;
\* the handler goes on to fetchComments().
CsInsertReply(ok) ==
  \E req \in cs_reqs :
    /\ req.kind = "insertComment"
    /\ cs_reqs' = (cs_reqs \ {req}) \cup
         (IF ok /\ req.live
          THEN {CsFetchComments(req.post, req.usr,
                                IF req.parent = 0 THEN "submitting" ELSE "replyTimer",
                                req.parent, req.snap, req.shown, TRUE)}
          ELSE {})
    /\ IF ok
       THEN /\ srv_comments' = srv_comments \cup
                 {[id |-> NextCommentId, post |-> req.post, parent |-> req.parent,
                   owner |-> req.usr, content |-> req.content, deleted |-> FALSE]}
            /\ toast' = IF req.parent = 0 THEN "commentCreated" ELSE "replyCreated"
            /\ cs_newComment' = IF req.live /\ req.parent = 0 THEN EmptyText ELSE cs_newComment
            /\ cs_offset' = IF req.live /\ req.parent = 0 THEN 0 ELSE cs_offset
            /\ cs_replyContent' = IF req.live /\ req.parent # 0 THEN EmptyText ELSE cs_replyContent
            /\ cs_replyingTo' = IF req.live /\ req.parent # 0 THEN 0 ELSE cs_replyingTo
            /\ UNCHANGED cs_submitting
       ELSE /\ toast' = IF req.parent = 0 THEN "commentCreateFailed" ELSE "replyCreateFailed"
            /\ cs_submitting' = IF req.live THEN FALSE ELSE cs_submitting
            /\ UNCHANGED <<srv_comments, cs_newComment, cs_offset, cs_replyContent,
                           cs_replyingTo>>
    /\ UNCHANGED <<cs_comments, cs_showReplies, cs_editingId, cs_editContent, cs_loading,
                   cs_hasMore, cs_timers, srv_commentLikes, csFrame>>

\* The edit button of a comment or a reply
StartEdit(x) ==
  /\ cs_editingId' = x.id
  /\ cs_editContent' = x.content
  /\ UNCHANGED <<cs_comments, cs_newComment, cs_replyingTo, cs_replyContent, cs_showReplies,
                 cs_loading, cs_submitting, cs_hasMore, cs_offset, cs_reqs, cs_timers,
                 toast, srvCommentVars, csFrame>>

ClickEdit ==
  /\ PdRendered
  /\ \E c \in cs_comments :
       \/ CommentOwnerButtons(c) /\ (cs_editingId # c.id \/ cs_editContent # c.content)
            /\ StartEdit(c)
       \/ \E r \in ShownReplies(c) :
            ReplyOwnerButtons(r) /\ (cs_editingId # r.id \/ cs_editContent # r.content)
              /\ StartEdit(r)

\* An edit textarea is on screen.
EditorShown ==
  \E c \in cs_comments :
    \/ CommentBody(c) = "editor"
    \/ \E r \in ShownReplies(c) : ReplyBody(r) = "editor"

\* onChange of the edit textarea
SetEditContent(t) ==
  /\ PdRendered
  /\ EditorShown
  /\ t # cs_editContent
  /\ cs_editContent' = t
  /\ UNCHANGED <<cs_comments, cs_newComment, cs_replyingTo, cs_replyContent, cs_showReplies,
                 cs_editingId, cs_loading, cs_submitting, cs_hasMore, cs_offset, cs_reqs,
                 cs_timers, toast, srvCommentVars, csFrame>>

\* the cancel button of the edit textarea
CancelEdit ==
  /\ PdRendered
  /\ EditorShown
  /\ cs_editingId' = 0
  /\ cs_editContent' = EmptyText
  /\ UNCHANGED <<cs_comments, cs_newComment, cs_replyingTo, cs_replyContent, cs_showReplies,
                 cs_loading, cs_submitting, cs_hasMore, cs_offset, cs_reqs, cs_timers,
                 toast, srvCommentVars, csFrame>>

\* handleEditComment(commentId, isReply, parentId) up to its await; parentId
\* is 0 for a top-level comment
handleEditComment(commentId, parentId) ==
  /\ IF IsBlank(cs_editContent)
     THEN /\ toast' = "commentEmpty"
          /\ UNCHANGED <<cs_submitting, cs_reqs>>
     ELSE IF TooLong(cs_editContent)
     THEN /\ toast' = "commentTooLong"
          /\ UNCHANGED <<cs_submitting, cs_reqs>>
     ELSE /\ CsRoom
          /\ cs_submitting' = TRUE
          /\ cs_reqs' = cs_reqs \cup
               {CsReq("updateComment", CsFreeSlot, pd_id, user, commentId, parentId,
                      Trim(cs_editContent), FALSE, "none", cs_comments, cs_showReplies, TRUE)}
          /\ UNCHANGED toast
  /\ UNCHANGED <<cs_comments, cs_newComment, cs_replyingTo, cs_replyContent, cs_showReplies,
                 cs_editingId, cs_editContent, cs_loading, cs_hasMore, cs_offset, cs_timers,
                 srvCommentVars, csFrame>>

\* the save button of the edit textarea (disabled while submitting)
SaveEdit ==
  /\ PdRendered
  /\ ~cs_submitting
  /\ \E c \in cs_comments :
       \/ CommentBody(c) = "editor" /\ handleEditComment(c.id, 0)
       \/ \E r \in ShownReplies(c) : ReplyBody(r) = "editor" /\ handleEditComment(r.id, c.id)

\* The rows an update of post_comments with .eq('id', id).eq('user_id', u)
\* changes.
OwnRows(id, u) == {row \in srv_comments : row.id = id /\ row.owner = u}

\* The backend answers the update of handleEditComment; the handler goes on
\* to fetchReplies(parentId) for a reply, to fetchComments() for a comment.
CsUpdateReply(ok) ==
  \E req \in cs_reqs :
    /\ req.kind = "updateComment"
    /\ cs_reqs' = (cs_reqs \ {req}) \cup
         (IF ok /\ req.live
          THEN IF req.parent # 0
               THEN {CsFetchReplies(req.post, req.usr, req.parent, "submitting",
                                    req.snap, req.shown, TRUE)}
               ELSE {CsFetchComments(req.post, req.usr, "submitting", 0, {}, {}, TRUE)}
          ELSE {})
    /\ IF ok
       THEN /\ srv_comments' = (srv_comments \ OwnRows(req.target, req.usr)) \cup
                 {[row EXCEPT !.content = req.content] : row \in OwnRows(req.target, req.usr)}
            /\ toast' = "commentUpdated"
            /\ cs_editingId' = IF req.live THEN 0 ELSE cs_editingId
            /\ cs_editContent' = IF req.live THEN EmptyText ELSE cs_editContent
            /\ UNCHANGED cs_submitting
       ELSE /\ toast' = "commentUpdateFailed"
            /\ cs_submitting' = IF req.live THEN FALSE ELSE cs_submitting
            /\ UNCHANGED <<srv_comments, cs_editingId, cs_editContent>>
    /\ UNCHANGED <<cs_comments, cs_newComment, cs_replyingTo, cs_replyContent, cs_showReplies,
                   cs_loading, cs_hasMore, cs_offset, cs_timers, srv_commentLikes, csFrame>>

\* handleDeleteComment(commentId, isReply, parentId), confirmed in the dialog,
\* up to its await: an update that sets deleted_at
handleDeleteComment(commentId, parentId) ==
  /\ CsRoom
  /\ cs_reqs' = cs_reqs \cup
       {CsReq("softDelete", CsFreeSlot, pd_id, user, commentId, parentId, EmptyText,
              FALSE, "none", cs_comments, cs_showReplies, TRUE)}
  /\ UNCHANGED <<csState, cs_timers, toast, srvCommentVars, csFrame>>

\* the delete button of a comment or a reply
ClickDelete ==
  /\ PdRendered
  /\ \E c \in cs_comments :
       \/ CommentOwnerButtons(c) /\ handleDeleteComment(c.id, 0)
       \/ \E r \in ShownReplies(c) : ReplyOwnerButtons(r) /\ handleDeleteComment(r.id, c.id)

\* The backend answers the soft delete; the handler goes on to
\* fetchReplies(parentId) for a reply whose list was expanded, to
\* fetchComments() for a comment.
CsSoftDeleteReply(ok) ==
  \E req \in cs_reqs :
    /\ req.kind = "softDelete"
    /\ cs_reqs' = (cs_reqs \ {req}) \cup
         (IF ok /\ req.live
          THEN IF req.parent # 0
               THEN IF req.parent \in req.shown
                    THEN {CsFetchReplies(req.post, req.usr, req.parent, "none",
                                         req.snap, req.shown, TRUE)}
                    ELSE {}
               ELSE {CsFetchComments(req.post, req.usr, "none", 0, {}, {}, TRUE)}
          ELSE {})
    /\ IF ok
       THEN /\ srv_comments' = (srv_comments \ OwnRows(req.target, req.usr)) \cup
                 {[row EXCEPT !.deleted = TRUE] : row \in OwnRows(req.target, req.usr)}
            /\ toast' = "commentDeleted"
       ELSE /\ toast' = "commentDeleteFailed"
            /\ UNCHANGED srv_comments
    /\ UNCHANGED <<csState, cs_timers, srv_commentLikes, csFrame>>

\* toggleReplies(commentId): hides the replies, or fetches them
toggleReplies(c) ==
  /\ PdRendered
  /\ c \in cs_comments
  /\ c.repliesCount > 0
  /\ IF c.id \in cs_showReplies
     THEN /\ cs_showReplies' = cs_showReplies \ {c.id}
          /\ UNCHANGED cs_reqs
     ELSE /\ CsRoom
          /\ cs_reqs' = cs_reqs \cup
               {CsFetchReplies(pd_id, user, c.id, "none", cs_comments, cs_showReplies, TRUE)}
          /\ UNCHANGED cs_showReplies
  /\ UNCHANGED <<cs_comments, cs_newComment, cs_replyingTo, cs_replyContent, cs_editingId,
                 cs_editContent, cs_loading, cs_submitting, cs_hasMore, cs_offset, cs_timers,
                 toast, srvCommentVars, csFrame>>

\* handleToggleLike(commentId, isLiked) up to its await
handleToggleLike(commentId, liked) ==
  /\ IF user = None
     THEN /\ toast' = "needLogin"
          /\ UNCHANGED cs_reqs
     ELSE /\ CsRoom
          /\ cs_reqs' = cs_reqs \cup
               {CsReq("toggleLike", CsFreeSlot, pd_id, user, commentId, 0, EmptyText,
                      liked, "none", cs_comments, cs_showReplies, TRUE)}
          /\ UNCHANGED toast
  /\ UNCHANGED <<csState, cs_timers, srvCommentVars, csFrame>>

\* the heart button of a comment or a reply
ClickLike ==
  /\ PdRendered
  /\ \E c \in cs_comments :
       \/ ~c.deleted /\ handleToggleLike(c.id, c.isLiked)
       \/ \E r \in ShownReplies(c) : ~r.deleted /\ handleToggleLike(r.id, r.isLiked)

\* The like state handleToggleLike sets on a comment or reply it closed over.
Toggled(x, liked) ==
  [x EXCEPT !.isLiked = ~liked,
            !.likesCount = IF liked THEN x.likesCount - 1 ELSE x.likesCount + 1]

\* The backend answers the insert or delete of handleToggleLike (comment_likes
\* holds a user and a comment at most once); the handler then sets the
\* comments it closed over, with the like toggled.
CsLikeReply(ok) ==
  \E req \in cs_reqs :
    /\ req.kind = "toggleLike"
    /\ ok => (req.liked \/ <<req.usr, req.target>> \notin srv_commentLikes)
    /\ cs_reqs' = cs_reqs \ {req}
    /\ IF ok
       THEN /\ srv_commentLikes' = IF req.liked
                                   THEN srv_commentLikes \ {<<req.usr, req.target>>}
                                   ELSE srv_commentLikes \cup {<<req.usr, req.target>>}
            /\ cs_comments' =
                 IF req.live
                 THEN {IF c.id = req.target
                       THEN Toggled(c, req.liked)
                       ELSE [c EXCEPT !.replies =
                               {IF r.id = req.target THEN Toggled(r, req.liked) ELSE r :
                                  r \in c.replies}] :
                       c \in req.snap}
                 ELSE cs_comments
            /\ UNCHANGED toast
       ELSE /\ toast' = "likeFailed"
            /\ UNCHANGED <<srv_commentLikes, cs_comments>>
    /\ UNCHANGED <<cs_newComment, cs_replyingTo, cs_replyContent, cs_showReplies, cs_editingId,
                   cs_editContent, cs_loading, cs_submitting, cs_hasMore, cs_offset, cs_timers,
                   srv_comments, csFrame>>


\* ------------------------------------------------------------------------
\* WritePage, EditPage: generateSlug
\* ------------------------------------------------------------------------
\* A title is a sequence of characters, each kept by its class: "a" a lower
\* case letter, digit or underscore, "A" an upper case letter, "k" a Hangul
\* syllable, " " white space, "-" the hyphen, "!" any other character.
TitleChars == {"a", "A", "k", " ", "-", "!"}

\* String.prototype.toLowerCase
ToLowerCase(s) == [i \in 1..Len(s) |-> IF s[i] = "A" THEN "a" ELSE s[i]]

RECURSIVE TrimStart(_)
TrimStart(s) == IF s # <<>> /\ Head(s) = " " THEN TrimStart(Tail(s)) ELSE s

RECURSIVE TrimEnd(_)
TrimEnd(s) ==
  IF s # <<>> /\ s[Len(s)] = " " THEN TrimEnd(SubSeq(s, 1, Len(s) - 1)) ELSE s

\* String.prototype.trim of a title
TrimTitle(s) == TrimEnd(TrimStart(s))

\* the characters /[^\w\s\uAC00-\uD7A3-]/g leaves
SlugCharKept(ch) == ch \in {"a", "A", "k", " ", "-"}

\* .replace(/[^\w\s\uAC00-\uD7A3-]/g, '')
RemoveSpecial(s) == SelectSeq(s, SlugCharKept)

RECURSIVE DropRun(_, _)
DropRun(s, ch) == IF s # <<>> /\ Head(s) = ch THEN DropRun(Tail(s), ch) ELSE s

\* .replace(/ch+/g, rep): every run of ch becomes one rep
RECURSIVE ReplaceRuns(_, _, _)
ReplaceRuns(s, ch, rep) ==
  IF s = <<>> THEN <<>>
  ELSE IF Head(s) = ch THEN <<rep>> \o ReplaceRuns(DropRun(s, ch), ch, rep)
  ELSE <<Head(s)>> \o ReplaceRuns(Tail(s), ch, rep)

\* .replace(/-+/g, '-')
CollapseHyphens(s) == ReplaceRuns(s, "-", "-")

\* .substring(0, 50)
SlugTitleMax == 50
Substring(s, n) == SubSeq(s, 1, IF Len(s) < n THEN Len(s) ELSE n)

\* Date.now() is kept as [hi, lo], the milliseconds being hi * 10^6 + lo;
\* the slug takes the last 6 digits
SlugSuffixLen == 6
DigitChars == <<"0", "1", "2", "3", "4", "5", "6", "7", "8", "9">>

\* Number.prototype.toString of a natural number below 2^31
RECURSIVE NatToString(_)
NatToString(n) ==
  IF n < 10 THEN <<DigitChars[n + 1]>>
  ELSE NatToString(n \div 10) \o <<DigitChars[(n % 10) + 1]>>

RECURSIVE ZeroPadded(_, _)
ZeroPadded(s, n) == IF Len(s) >= n THEN s ELSE ZeroPadded(<<"0">> \o s, n)

\* Date.now().toString()
NowToString(now) ==
  IF now.hi = 0 THEN NatToString(now.lo)
  ELSE NatToString(now.hi) \o ZeroPadded(NatToString(now.lo), SlugSuffixLen)

\* .slice(-n)
SliceLast(s, n) == IF Len(s) <= n THEN s ELSE SubSeq(s, Len(s) - n + 1, Len(s))

\* generateSlug(title) called when Date.now() is now
generateSlug(title, now) ==
  Substring(CollapseHyphens(ReplaceRuns(RemoveSpecial(TrimTitle(ToLowerCase(title))),
                                        " ", "-")),
            SlugTitleMax)
    \o <<"-">> \o SliceLast(NowToString(now), SlugSuffixLen)

\* the effect on [title] of WritePage and EditPage calls generateSlug
GenerateSlugCall(title, now) ==
  /\ slug_last' = {[title |-> title, now |-> now, slug |-> generateSlug(title, now)]}
  /\ UNCHANGED <<authVars, routeVars, toast, loginVars, imageVars, dataVars, suVars, nbVars, wpVars, hpVars,
                 spVars>>

\* ------------------------------------------------------------------------
\* WritePage
\* ------------------------------------------------------------------------
\* ProtectedRoute renders WritePage on /write for a signed-in user.
WritePageMounted == path = "/write" /\ ProtectedRoute(authLoading, user) = "children"

\* the state of everything that is not WritePage, a post page or the router
wpFrame == <<authVars, loginVars, imageVars, srvVars, slugVars, suVars, nbVars, hpVars,
            spVars>>

\* The visitor goes to /write: a new WritePage instance is mounted; what is
\* in flight belongs to earlier instances.
WpOpen ==
  /\ path # "/write"
  /\ ProtectedRoute(authLoading, user) = "children"
  /\ path' = "/write"
  /\ navFrom' = None
  /\ wp_loading' = FALSE
  /\ wp_reqs' = {[r EXCEPT !.live = FALSE] : r \in wp_reqs}
  /\ PdUnmounted
  /\ EpUnmounted
  /\ MpUnmounted
  /\ UNCHANGED <<toast, srv_written, wpFrame>>

\* the cancel button: navigate('/')
WpCancel ==
  /\ WritePageMounted
  /\ path' = "/"
  /\ navFrom' = None
  /\ wp_loading' = FALSE
  /\ wp_reqs' = {[r EXCEPT !.live = FALSE] : r \in wp_reqs}
  /\ UNCHANGED <<toast, srv_written, pdVars, epVars, mpVars, wpFrame>>

\* inserts of WritePage that may be in flight together, and posts they create
MaxWpInFlight == 1
MaxWritten == 2

\* WritePage.handleSubmit up to its await (the button is disabled while
\* loading; the page is rendered for a signed-in user only)
WpHandleSubmit(form) ==
  /\ WritePageMounted
  /\ ~wp_loading
  /\ IF ~form.filled
     THEN toast' = "fillTitleAndContent" /\ UNCHANGED <<wp_loading, wp_reqs>>
     ELSE IF Len(TagArray(form.tags)) > MaxTags
     THEN toast' = "tooManyTags" /\ UNCHANGED <<wp_loading, wp_reqs>>
     ELSE /\ Cardinality(wp_reqs) < MaxWpInFlight
          /\ Cardinality(srv_written) < MaxWritten
          /\ wp_loading' = TRUE
          /\ wp_reqs' = wp_reqs \cup
               {[usr |-> user, typed |-> Len(TypedTags(form.tags)),
                 tags |-> Len(TagArray(form.tags)), live |-> TRUE]}
          /\ UNCHANGED toast
  /\ UNCHANGED <<routeVars, srv_written, pdVars, epVars, mpVars, wpFrame>>

\* the id the backend gives the inserted post
NewPostId == "p3"

\* handleSubmit after the await of the insert
WpInsertReply(ok) ==
  \E req \in wp_reqs :
    /\ wp_reqs' = wp_reqs \ {req}
    /\ wp_loading' = IF req.live THEN FALSE ELSE wp_loading
    /\ IF ok
       THEN \* toast.success, navigate(`/post/${data.id}`)
            /\ srv_written' = srv_written \cup {[owner |-> req.usr, tags |-> req.tags]}
            /\ toast' = "postCreated"
            /\ path' = "/post"
            /\ navFrom' = None
            /\ PdShown(NewPostId)
            /\ EpUnmounted
            /\ MpUnmounted
       ELSE /\ toast' = "postCreateFailed"
            /\ UNCHANGED <<routeVars, srv_written, pdVars, epVars, mpVars>>
    /\ UNCHANGED wpFrame

\* ------------------------------------------------------------------------
\* HomePage
\* ------------------------------------------------------------------------
POSTS_PER_PAGE == 12
\* public posts the backend comes to hold, pages the feed loads, and likes or
\* comments the posts collect
MaxFeedPosts == 13
MaxFeedPage == 1
MaxFeedScore == 1

\* the state of everything that is not HomePage or the feed of the backend
hpFrame == <<authVars, routeVars, loginVars, imageVars, dataVars, slugVars, suVars, nbVars,
             wpVars, spVars>>

HpReq(page, sort, reset) == [page |-> page, sort |-> sort, reset |-> reset]

\* The rows in the order the query gives them: by created_at descending for
\* 'latest'; without an order clause, in the order of the table.
FeedOrder(sort) ==
  [i \in 1..srv_feedCount |-> IF sort = "latest" THEN srv_feedCount + 1 - i ELSE i]

\* query.range(from, to)
Range(rows, from, to) == SubSeq(rows, from + 1, IF to + 1 < Len(rows) THEN to + 1 ELSE Len(rows))

\* postsWithCounts: every row with its likes_count and comments_count
WithCounts(rows) ==
  [i \in 1..Len(rows) |-> [id |-> rows[i], score |-> srv_feedScore[rows[i]]]]

\* x put behind the last element of sorted whose score is not below its own
RECURSIVE InsertByScore(_, _)
InsertByScore(sorted, x) ==
  IF sorted = <<>> THEN <<x>>
  ELSE IF sorted[Len(sorted)].score >= x.score THEN Append(sorted, x)
  ELSE Append(InsertByScore(SubSeq(sorted, 1, Len(sorted) - 1), x), sorted[Len(sorted)])

\* postsWithCounts.sort((a, b) => scoreB - scoreA): descending and stable
RECURSIVE SortByScore(_)
SortByScore(posts) ==
  IF posts = <<>> THEN <<>>
  ELSE InsertByScore(SortByScore(SubSeq(posts, 1, Len(posts) - 1)), posts[Len(posts)])

\* the list a fetch of the page yields
FetchedPage(page, sort) ==
  LET from == page * POSTS_PER_PAGE
      rows == WithCounts(Range(FeedOrder(sort), from, from + POSTS_PER_PAGE - 1))
  IN IF sort = "popular" THEN SortByScore(rows) ELSE rows

\* setPosts((prev) => [...prev, ...postsWithCounts])
MergedPosts(prev, fetched) == prev \o fetched

\* The scroll target is rendered below a list that is not empty, while
\* hasMore is set and the first page is not loading.
HpTargetRendered == ~hp_loading /\ hp_posts # <<>> /\ hp_hasMore

\* The effect on [handleObserver]: handleObserver is a new function when
\* loadingMore, hasMore, page or sortBy changed; the effect then observes the
\* target element of that render, if there is one.  Otherwise the element
\* stays observed while it stays rendered.
HpObserverEffect ==
  hp_observed' =
    IF <<hp_loadingMore, hp_hasMore, hp_page, hp_sortBy>>' #
         <<hp_loadingMore, hp_hasMore, hp_page, hp_sortBy>>
    THEN HpTargetRendered'
    ELSE hp_observed /\ HpTargetRendered'

\* the page and the sort a fetch was issued for
FetchSource(req) == [page |-> req.page, sort |-> req.sort]

\* fetchPosts(pageNum, sort, reset) after its awaits
HpFetchReply(ok) ==
  \E req \in hp_reqs :
    /\ hp_reqs' = hp_reqs \ {req}
    /\ IF ok
       THEN /\ hp_posts' = IF req.reset THEN FetchedPage(req.page, req.sort)
                           ELSE MergedPosts(hp_posts, FetchedPage(req.page, req.sort))
            /\ hp_sources' = IF req.reset THEN <<FetchSource(req)>>
                             ELSE Append(hp_sources, FetchSource(req))
            /\ hp_hasMore' = (srv_feedCount # 0 /\
                              req.page * POSTS_PER_PAGE + POSTS_PER_PAGE < srv_feedCount)
       ELSE UNCHANGED <<hp_posts, hp_sources, hp_hasMore>>
    /\ hp_loading' = FALSE
    /\ hp_loadingMore' = FALSE
    /\ UNCHANGED <<hp_sortBy, hp_page>>
    /\ HpObserverEffect
    /\ UNCHANGED <<toast, srv_feedCount, srv_feedScore, hpFrame>>

\* handleSortChange(newSort), with the effect on [sortBy] that follows it:
\* setPage(0), fetchPosts(0, sortBy, true)
handleSortChange(newSort) ==
  /\ newSort # hp_sortBy
  /\ hp_sortBy' = newSort
  /\ hp_posts' = <<>>
  /\ hp_sources' = <<>>
  /\ hp_page' = 0
  /\ hp_hasMore' = TRUE
  /\ hp_loading' = TRUE
  /\ hp_reqs' = hp_reqs \cup {HpReq(0, newSort, TRUE)}
  /\ UNCHANGED hp_loadingMore
  /\ HpObserverEffect
  /\ UNCHANGED <<toast, srv_feedCount, srv_feedScore, hpFrame>>

\* handleObserver: the observed target comes into view
handleObserver ==
  /\ hp_observed
  /\ HpTargetRendered
  /\ ~hp_loadingMore
  /\ hp_hasMore
  /\ hp_page < MaxFeedPage
  /\ hp_page' = hp_page + 1
  /\ hp_loadingMore' = TRUE
  /\ hp_reqs' = hp_reqs \cup {HpReq(hp_page + 1, hp_sortBy, FALSE)}
  /\ UNCHANGED <<hp_posts, hp_sources, hp_sortBy, hp_hasMore, hp_loading>>
  /\ HpObserverEffect
  /\ UNCHANGED <<toast, srv_feedCount, srv_feedScore, hpFrame>>

\* Someone publishes a post.
FeedPostCreated ==
  /\ srv_feedCount < MaxFeedPosts
  /\ srv_feedCount' = srv_feedCount + 1
  /\ UNCHANGED <<hpState, hp_reqs, srv_feedScore, toast, hpFrame>>

\* Someone likes or comments a public post.
FeedPostLiked(p) ==
  /\ p \in 1..srv_feedCount
  /\ srv_feedScore[p] < MaxFeedScore
  /\ srv_feedScore' = [srv_feedScore EXCEPT ![p] = @ + 1]
  /\ UNCHANGED <<hpState, hp_reqs, srv_feedCount, toast, hpFrame>>

\* ------------------------------------------------------------------------
\* SignupPage
\* ------------------------------------------------------------------------
MinPasswordLength == 8
MaxBioLength == 200

SignupPageMounted == path = "/signup"

\* the state of everything that is not SignupPage or the router
suFrame == <<authVars, loginVars, imageVars, dataVars, slugVars, nbVars, wpVars, hpVars,
            spVars>>

\* The visitor opens /signup.
SuOpen ==
  /\ path # "/signup"
  /\ path' = "/signup"
  /\ navFrom' = None
  /\ LoginStateAfter("/signup")
  /\ UNCHANGED <<toast, lp_req, lp_timer, authVars, imageVars, dataVars, slugVars, suVars,
                 nbVars, wpVars, hpVars, spVars>>

\* SignupPage is unmounted: its loading state is dropped, its request and its
\* timer live on.
SuUnmounted ==
  /\ su_loading' = FALSE
  /\ su_reqs' = {[r EXCEPT !.live = FALSE] : r \in su_reqs}

\* The visitor leaves /signup for the home page.
SuLeave ==
  /\ SignupPageMounted
  /\ path' = "/"
  /\ navFrom' = None
  /\ SuUnmounted
  /\ UNCHANGED <<toast, su_timer, suFrame>>

\* the password handleSubmit passes to signUp
SignUpPassword(password) == Trim(password)

\* SignupPage.handleSubmit up to its await (the button is disabled while
\* loading); form holds the texts of the fields
SuHandleSubmit(form) ==
  /\ SignupPageMounted
  /\ ~su_loading
  /\ IF IsBlank(form.email) \/ IsBlank(form.password) \/ IsBlank(form.username)
     THEN toast' = "fillRequired" /\ UNCHANGED <<su_loading, su_reqs>>
     ELSE IF form.password # form.confirmPassword
     THEN toast' = "passwordMismatch" /\ UNCHANGED <<su_loading, su_reqs>>
     ELSE IF TextLength(form.password) < MinPasswordLength
     THEN toast' = "passwordTooShort" /\ UNCHANGED <<su_loading, su_reqs>>
     ELSE IF TextLength(form.bio) > MaxBioLength
     THEN toast' = "bioTooLong" /\ UNCHANGED <<su_loading, su_reqs>>
     ELSE /\ su_loading' = TRUE
          /\ su_reqs' = su_reqs \cup
               {[password |-> SignUpPassword(form.password), typed |-> form.password,
                 confirm |-> form.confirmPassword, live |-> TRUE]}
          /\ UNCHANGED toast
  /\ UNCHANGED <<routeVars, su_timer, suFrame>>

SignUpReplies == {"ok", "alreadyRegistered", "otherError"}

\* handleSubmit after the await of supabase.auth.signUp
SuSignUpReply(reply) ==
  \E req \in su_reqs :
    /\ su_reqs' = su_reqs \ {req}
    /\ su_loading' = IF req.live THEN FALSE ELSE su_loading
    /\ toast' = CASE reply = "ok" -> "signupDone"
                  [] reply = "alreadyRegistered" -> "emailTaken"
                  [] OTHER -> "signupFailed"
    /\ su_timer' = IF reply = "ok" THEN TRUE ELSE su_timer
    /\ UNCHANGED <<routeVars, suFrame>>

\* setTimeout(() => navigate('/login'), 1000)
SuTimerFires ==
  /\ su_timer
  /\ su_timer' = FALSE
  /\ path' = "/login"
  /\ navFrom' = None
  /\ IF SignupPageMounted THEN SuUnmounted ELSE UNCHANGED <<su_loading, su_reqs>>
  /\ UNCHANGED <<toast, suFrame>>

\* ------------------------------------------------------------------------
\* Navbar: search and recent searches
\* ------------------------------------------------------------------------
\* A query is kept as the word it holds ("" for none) and whether white
\* space stands around it.
EmptyQuery == [pad |-> FALSE, word |-> ""]
\* query.trim()
TrimQuery(query) == query.word

MaxRecentSearches == 5

\* list.filter(q => q !== trimmed)
RECURSIVE Without(_, _)
Without(list, trimmed) ==
  IF list = <<>> THEN <<>>
  ELSE IF Head(list) = trimmed THEN Without(Tail(list), trimmed)
  ELSE <<Head(list)>> \o Without(Tail(list), trimmed)

\* list.slice(0, n)
SliceFirst(list, n) == SubSeq(list, 1, IF Len(list) < n THEN Len(list) ELSE n)

\* the variant that does not filter the list
UpdatedRecent_Unfiltered(list, trimmed) ==
  SliceFirst(<<trimmed>> \o list, MaxRecentSearches)

\* updated = [trimmed, ...recentSearches.filter(q => q !== trimmed)].slice(0, 5)
UpdatedRecent(list, trimmed) ==
  SliceFirst(<<trimmed>> \o Without(list, trimmed), MaxRecentSearches)

\* onChange of the search input
SetSearchQuery(query) ==
  /\ query # nb_searchQuery
  /\ nb_searchQuery' = query
  /\ UNCHANGED <<nb_recent, ls_recent, authVars, routeVars, toast, loginVars, imageVars,
                 dataVars, slugVars, suVars, wpVars, hpVars, spVars>>

\* clearSearch
ClearSearch ==
  /\ nb_searchQuery # EmptyQuery
  /\ nb_searchQuery' = EmptyQuery
  /\ UNCHANGED <<nb_recent, ls_recent, authVars, routeVars, toast, loginVars, imageVars,
                 dataVars, slugVars, suVars, wpVars, hpVars, spVars>>

\* The router shows /search?q=word.  Coming from another page mounts
\* SearchPage (empty lists, loading); a new q on the mounted page keeps its
\* state.  The effect on [query] runs when q is new: searchContent() sets
\* loading and sends its queries.  What an unmounted instance still awaited
\* sets no state.
SpShown(word) ==
  IF path = "/search"
  THEN IF word = sp_query
       THEN UNCHANGED spVars
       ELSE /\ sp_query' = word
            /\ sp_loading' = TRUE
            /\ sp_reqs' = sp_reqs \cup {word}
            /\ UNCHANGED <<sp_posts, sp_profiles>>
  ELSE /\ sp_query' = word
       /\ sp_posts' = {}
       /\ sp_profiles' = {}
       /\ sp_loading' = TRUE
       /\ sp_reqs' = {word}

\* handleSearch(query) with saveRecentSearch: a blank query returns at once;
\* otherwise the list is updated in state and in localStorage and the router
\* goes to /search?q=...
handleSearch(query) ==
  /\ TrimQuery(query) # ""
  /\ nb_recent' = UpdatedRecent(nb_recent, TrimQuery(query))
  /\ ls_recent' = UpdatedRecent(nb_recent, TrimQuery(query))
  /\ nb_searchQuery' = EmptyQuery
  /\ path' = "/search"
  /\ navFrom' = None
  /\ LoginStateAfter("/search")
  /\ PagesUnmounted
  /\ IF SignupPageMounted THEN SuUnmounted ELSE UNCHANGED <<su_loading, su_reqs>>
  /\ SpShown(TrimQuery(query))
  /\ UNCHANGED <<authVars, toast, lp_req, lp_timer, imageVars, slugVars, su_timer, wpVars,
                 hpVars>>

\* Enter in the search input, with no entry of the list selected
SearchTyped == handleSearch(nb_searchQuery)

\* a click on entry i of the recent searches (or Enter with it selected)
SearchRecent(i) ==
  /\ i \in 1..Len(nb_recent)
  /\ handleSearch([pad |-> FALSE, word |-> nb_recent[i]])

\* ------------------------------------------------------------------------
\* SearchPage
\* ------------------------------------------------------------------------
\* The public posts and the profiles of the backend, each with the words its
\* title and content, or its username, contain.
SearchablePosts ==
  {[id |-> "s1", words |-> {"q1"}], [id |-> "s2", words |-> {"q2"}],
   [id |-> "s3", words |-> {"q1", "q2"}]}
SearchableProfiles ==
  {[id |-> "u1", words |-> {"q1"}], [id |-> "u2", words |-> {"q2"}]}

\* title.ilike.%query% or content.ilike.%query%; username ilike %query%
FoundPosts(query) == {p.id : p \in {x \in SearchablePosts : query \in x.words}}
FoundProfiles(query) == {p.id : p \in {x \in SearchableProfiles : query \in x.words}}

\* searchContent after its awaits; ok is whether both queries came back
\* without an error
SpSearchReply(ok) ==
  \E query \in sp_reqs :
    /\ sp_reqs' = sp_reqs \ {query}
    /\ IF ok
       THEN /\ sp_posts' = FoundPosts(query)
            /\ sp_profiles' = FoundProfiles(query)
            /\ UNCHANGED toast
       ELSE /\ toast' = "searchFailed"
            /\ UNCHANGED <<sp_posts, sp_profiles>>
    /\ sp_loading' = FALSE
    /\ UNCHANGED <<sp_query, authVars, routeVars, loginVars, imageVars, dataVars, slugVars,
                   suVars, nbVars, wpVars, hpVars>>

\* Another tab of the same browser runs saveRecentSearch on the list it
\* holds, which here is the stored one.
OtherTabSearches(word) ==
  /\ ls_recent' = UpdatedRecent(ls_recent, word)
  /\ ls_recent' # ls_recent
  /\ UNCHANGED <<nb_searchQuery, nb_recent, authVars, routeVars, toast, loginVars, imageVars,
                 dataVars, slugVars, suVars, wpVars, hpVars, spVars>>

InitClient ==
  /\ authLoading = TRUE
  /\ user = None
  /\ path = "/"
  /\ navFrom = None
  /\ toast = None
  /\ rememberMe = FALSE
  /\ lp_loading = FALSE
  /\ lp_req = {}
  /\ lp_timer = None
  /\ lp_outcome = None
  /\ img_last = {}
  /\ img_jobs = {}
  /\ editAvatarFile = {}
  /\ rz_last = {}
  /\ srv_posts = Posts
  /\ srv_postLikes = {}
  /\ pd_mounted = FALSE
  /\ pd_id = None
  /\ pd_post = None
  /\ pd_loading = TRUE
  /\ likesCount = 0
  /\ isLiked = FALSE
  /\ likingInProgress = FALSE
  /\ pd_reqs = {}
  /\ pd_lastToggle = None
  /\ ep_mounted = FALSE
  /\ ep_id = None
  /\ ep_post = None
  /\ ep_initialLoading = TRUE
  /\ ep_loading = FALSE
  /\ ep_reqs = {}
  /\ mp_mounted = FALSE
  /\ mp_posts = {}
  /\ mp_reqs = {}
  /\ srv_commentLikes = {}
  /\ cs_comments = {}
  /\ cs_newComment = EmptyText
  /\ cs_replyingTo = 0
  /\ cs_replyContent = EmptyText
  /\ cs_showReplies = {}
  /\ cs_editingId = 0
  /\ cs_editContent = EmptyText
  /\ cs_loading = TRUE
  /\ cs_submitting = FALSE
  /\ cs_hasMore = FALSE
  /\ cs_offset = 0
  /\ cs_reqs = {}
  /\ cs_timers = {}
  /\ slug_last = {}
  /\ su_loading = FALSE
  /\ su_reqs = {}
  /\ su_timer = FALSE
  /\ nb_searchQuery = [pad |-> FALSE, word |-> ""]
  /\ nb_recent = <<>>
  /\ ls_recent = <<>>
  /\ wp_loading = FALSE
  /\ wp_reqs = {}
  /\ srv_written = {}
  \* the app opens on '/': HomePage is mounted and its first fetch is on its way
  /\ hp_posts = <<>>
  /\ hp_sortBy = "latest"
  /\ hp_page = 0
  /\ hp_hasMore = TRUE
  /\ hp_loading = TRUE
  /\ hp_loadingMore = FALSE
  /\ hp_observed = FALSE
  /\ hp_sources = <<>>
  /\ hp_reqs = {HpReq(0, "latest", TRUE)}
  /\ srv_feedCount = POSTS_PER_PAGE
  /\ srv_feedScore = [p \in 1..MaxFeedPosts |-> 0]
  /\ sp_query = ""
  /\ sp_posts = {}
  /\ sp_profiles = {}
  /\ sp_loading = TRUE
  /\ sp_reqs = {}

\* a backend without comments
Init == InitClient /\ srv_comments = {}

\* a text of the largest length the handlers accept
FullText == [space |-> 0, core |-> MaxCommentLength]

\* A backend that holds comments of earlier sessions on post p1: a comment of
\* u1 with a reply of u1, and a comment of u2 that u2 deleted.
SeedComments ==
  {[id |-> 1, post |-> "p1", parent |-> 0, owner |-> "u1",
    content |-> FullText, deleted |-> FALSE],
   [id |-> 2, post |-> "p1", parent |-> 1, owner |-> "u1",
    content |-> FullText, deleted |-> FALSE],
   [id |-> 3, post |-> "p1", parent |-> 0, owner |-> "u2",
    content |-> FullText, deleted |-> TRUE]}

InitComments == InitClient /\ srv_comments = SeedComments

NextAuth ==
  \/ ProtectedRedirect
  \/ \E p \in Paths : Goto(p)
  \/ \E u \in Users \cup {None} : AuthResolved(u)
  \/ handleSignOut
  \/ ToggleRememberMe
  \/ \E filled \in BOOLEAN : LoginSubmit(filled)
  \/ \E reply \in SignInReplies, u \in Users : LoginReply(reply, u)
  \/ LoginTimerFires

SpecAuth == Init /\ [][NextAuth]_vars

\* a signed-out visitor signs in (AuthContext reports the new session)
AuthSignedIn(u) ==
  /\ ~authLoading
  /\ user = None
  /\ user' = u
  /\ PagesSeeUser(u)
  /\ UNCHANGED <<authLoading, routeVars, toast, loginVars, imageVars, siteVars>>

\* the visitor of the like scenarios and the other sessions
LikeUsers == {"u1"}
OtherUsers == {"u2"}
LikePosts == {"p1"}

NextLike ==
  \/ \E u \in LikeUsers \cup {None} : AuthResolved(u)
  \/ \E u \in LikeUsers : AuthSignedIn(u)
  \/ handleSignOut
  \/ \E id \in LikePosts : PdOpen(id)
  \/ LeavePage
  \/ handleLikeToggle
  \/ \E ok \in BOOLEAN : LikeReply(ok)
  \/ \E ok \in BOOLEAN : FetchPostReply(ok)
  \/ \E ok \in BOOLEAN : LikesCountReply(ok)
  \/ \E ok \in BOOLEAN : LikeRowReply(ok)
  \/ \E u \in OtherUsers, p \in LikePosts : OtherSessionLikes(u, p)

SpecLike == Init /\ [][NextLike]_vars

\* the backend answers every post_likes request: the promise of the client
\* settles
SpecLikeFair == SpecLike /\ WF_vars(\E ok \in BOOLEAN : LikeReply(ok))

\* the visitor of the post-write scenarios (the posts are of both users)
OwnerUsers == {"u1"}
\* the edit form as these scenarios submit it: filled in, without tags
OwnerForms == {[filled |-> TRUE, tags |-> <<0>>]}

NextOwner ==
  \/ \E u \in OwnerUsers : AuthResolved(u)
  \/ \E u \in OwnerUsers : AuthSignedIn(u)
  \/ handleSignOut
  \/ \E id \in Posts : PdOpen(id)
  \/ LeavePage
  \/ \E ok \in BOOLEAN : FetchPostReply(ok)
  \/ \E ok \in BOOLEAN : LikesCountReply(ok)
  \/ \E ok \in BOOLEAN : LikeRowReply(ok)
  \/ handleDelete
  \/ \E ok \in BOOLEAN : DeleteReply(ok)
  \/ \E id \in Posts : EpOpen(id)
  \/ \E ok \in BOOLEAN : EpFetchReply(ok)
  \/ \E form \in OwnerForms : EpHandleSubmit(form)
  \/ \E ok \in BOOLEAN : EpUpdateReply(ok)
  \/ MpOpen
  \/ \E ok \in BOOLEAN : MpFetchReply(ok)
  \/ \E p \in Posts : handleDeletePost(p)
  \/ \E ok \in BOOLEAN : MpDeleteReply(ok)

SpecOwner == Init /\ [][NextOwner]_vars

\* the texts typed into the textareas
PlainTexts == {FullText}
\* the text of the largest length that is accepted, the same with a blank
\* after it, and a blank alone
Texts == {FullText, [space |-> 1, core |-> MaxCommentLength], [space |-> 1, core |-> 0]}
CommentUsers == {"u1"}
CommentPosts == {"p1"}

\* CommentSection as every scenario has it: the page is opened and left, the
\* lists are fetched and expanded
NextCommentBase ==
  \/ \E id \in CommentPosts : PdOpen(id)
  \/ LeavePage
  \/ \E ok \in BOOLEAN : FetchPostReply(ok)
  \/ \E ok \in BOOLEAN : CsFetchCommentsReply(ok)
  \/ \E ok \in BOOLEAN : CsFetchRepliesReply(ok)
  \/ \E c \in cs_comments : toggleReplies(c)

\* likes of comments and replies
NextCommentLike ==
  \/ \E u \in CommentUsers \cup {None} : AuthResolved(u)
  \/ NextCommentBase
  \/ ClickLike
  \/ \E ok \in BOOLEAN : CsLikeReply(ok)

SpecCommentLike == InitComments /\ [][NextCommentLike]_vars

\* soft deletes of comments and replies, with the edit mode beside them
NextCommentDelete ==
  \/ \E u \in CommentUsers : AuthResolved(u)
  \/ NextCommentBase
  \/ ClickEdit
  \/ CancelEdit
  \/ ClickDelete
  \/ \E ok \in BOOLEAN : CsSoftDeleteReply(ok)

SpecCommentDelete == InitComments /\ [][NextCommentDelete]_vars

\* new comments and replies
NextCommentWrite ==
  \/ \E u \in CommentUsers : AuthResolved(u)
  \/ NextCommentBase
  \/ CsReplyTimerFires
  \/ \E t \in PlainTexts : SetNewComment(t)
  \/ handleSubmitComment
  \/ ClickReply
  \/ \E t \in PlainTexts : SetReplyContent(t)
  \/ SubmitReplyBox
  \/ \E ok \in BOOLEAN : CsInsertReply(ok)

SpecCommentWrite == InitComments /\ [][NextCommentWrite]_vars

\* the three textareas with texts at the limit, on a page that stays open
NextCommentText ==
  \/ \E u \in CommentUsers : AuthResolved(u)
  \/ \E id \in CommentPosts : PdOpen(id)
  \/ \E ok \in BOOLEAN : FetchPostReply(ok)
  \/ \E ok \in BOOLEAN : CsFetchCommentsReply(ok)
  \/ \E t \in Texts : SetNewComment(t)
  \/ handleSubmitComment
  \/ ClickReply
  \/ \E t \in Texts : SetReplyContent(t)
  \/ SubmitReplyBox
  \/ \E ok \in BOOLEAN : CsInsertReply(ok)
  \/ ClickEdit
  \/ \E t \in Texts : SetEditContent(t)
  \/ SaveEdit
  \/ \E ok \in BOOLEAN : CsUpdateReply(ok)

SpecCommentText == InitComments /\ [][NextCommentText]_vars

\* A backend with two comments on post p1, the second with a reply.
TwoComments ==
  {[id |-> 1, post |-> "p1", parent |-> 0, owner |-> "u1",
    content |-> FullText, deleted |-> FALSE],
   [id |-> 2, post |-> "p1", parent |-> 0, owner |-> "u2",
    content |-> FullText, deleted |-> FALSE],
   [id |-> 3, post |-> "p1", parent |-> 2, owner |-> "u2",
    content |-> FullText, deleted |-> FALSE]}

InitOverlap == InitClient /\ srv_comments = TwoComments

\* likes and reply fetches of one signed-in visitor on a page that stays
\* open, on a backend that answers every like and every reply fetch without
\* an error
NextCommentOverlap ==
  \/ \E u \in CommentUsers : AuthResolved(u)
  \/ \E id \in CommentPosts : PdOpen(id)
  \/ FetchPostReply(TRUE)
  \/ CsFetchCommentsReply(TRUE)
  \/ \E c \in cs_comments : toggleReplies(c)
  \/ CsFetchRepliesReply(TRUE)
  \/ ClickLike
  \/ CsLikeReply(TRUE)

SpecCommentOverlap == InitOverlap /\ [][NextCommentOverlap]_vars

\* n top-level comments of u1 on post p1
ManyComments(n) ==
  {[id |-> i, post |-> "p1", parent |-> 0, owner |-> "u1",
    content |-> FullText, deleted |-> FALSE] : i \in 1..n}

\* numbers of comments around one and two pages
PageSeeds == {COMMENTS_PER_PAGE - 1, COMMENTS_PER_PAGE, COMMENTS_PER_PAGE + 1,
              2 * COMMENTS_PER_PAGE}

InitPages == InitClient /\ \E n \in PageSeeds : srv_comments = ManyComments(n)

\* the pages of the comments of a post
NextCommentPages ==
  \/ \E u \in CommentUsers \cup {None} : AuthResolved(u)
  \/ \E id \in CommentPosts : PdOpen(id)
  \/ LeavePage
  \/ \E ok \in BOOLEAN : FetchPostReply(ok)
  \/ \E ok \in BOOLEAN : CsFetchCommentsReply(ok)
  \/ ClickLoadMore
  \/ \E ok \in BOOLEAN : CsFetchMoreReply(ok)

SpecCommentPages == InitPages /\ [][NextCommentPages]_vars

\* titles of up to MaxTitleLen characters, and titles in which a run of
\* FillerLen letters brings three more characters to the 50th place
MaxTitleLen == 3
FillerLen == 48
ShortTitles == UNION {[1..n -> TitleChars] : n \in 0..MaxTitleLen}
Filler == [i \in 1..FillerLen |-> "a"]
LongTitles == {Filler \o t : t \in [1..3 -> {"a", " ", "-", "!"}]}
Titles == ShortTitles \cup LongTitles
\* three values of Date.now(): two that follow each other, and one 10^6 ms
\* after the first
Nows == {[hi |-> 1700000, lo |-> 999999], [hi |-> 1700001, lo |-> 0],
         [hi |-> 1700001, lo |-> 999999]}

NextSlug == \E title \in Titles, now \in Nows : GenerateSlugCall(title, now)

SpecSlug == Init /\ [][NextSlug]_vars

\* the texts typed into the signup form: nothing, a blank, 7 and 8 characters
\* alone and after a blank, and a bio of 201 characters
SignupPasswords == {[space |-> sp, core |-> n] : sp \in {0, 1}, n \in {0, 7, 8}}
SignupBios == {EmptyText, [space |-> 0, core |-> MaxBioLength + 1]}
SignupForms ==
  {[email |-> e, username |-> e, password |-> pw, confirmPassword |-> cpw, bio |-> bio] :
     e \in {EmptyText, [space |-> 0, core |-> 7]},
     pw \in SignupPasswords, cpw \in SignupPasswords, bio \in SignupBios}

NextSignup ==
  \/ SuOpen
  \/ SuLeave
  \/ \E form \in SignupForms : SuHandleSubmit(form)
  \/ \E reply \in SignUpReplies : SuSignUpReply(reply)
  \/ SuTimerFires

SpecSignup == Init /\ [][NextSignup]_vars

\* the words searched for (one more than the list holds), alone and with
\* white space around them, and the blank queries
SearchWords == {"q1", "q2", "q3", "q4", "q5", "q6"}
SearchQueries == {[pad |-> pd, word |-> w] : pd \in BOOLEAN, w \in SearchWords \cup {""}}
OtherTabWords == {"q1"}

NextSearch ==
  \/ \E query \in SearchQueries : SetSearchQuery(query)
  \/ ClearSearch
  \/ SearchTyped
  \/ \E i \in 1..MaxRecentSearches : SearchRecent(i)
  \/ \E word \in OtherTabWords : OtherTabSearches(word)

SpecSearch == Init /\ [][NextSearch]_vars

\* searches for two words that find different posts and profiles
ResultWords == {"q1", "q2"}

NextSearchPage ==
  \/ \E word \in ResultWords : SetSearchQuery([pad |-> FALSE, word |-> word])
  \/ ClearSearch
  \/ SearchTyped
  \/ \E i \in 1..MaxRecentSearches : SearchRecent(i)
  \/ \E ok \in BOOLEAN : SpSearchReply(ok)

SpecSearchPage == Init /\ [][NextSearchPage]_vars

\* tag inputs: the empty input, MaxTags and MaxTags + 1 tags, and the latter
\* with a blank piece between the tags; with and without title and content
AllFilled(n) == [i \in 1..n |-> 1]
TagInputs == {<<0>>, AllFilled(MaxTags), AllFilled(MaxTags + 1),
              <<1, 0>> \o AllFilled(MaxTags)}
PostForms == {[filled |-> f, tags |-> input] : f \in BOOLEAN, input \in TagInputs}
TagUsers == {"u1"}
TagPosts == {"p1"}

NextTags ==
  \/ \E u \in TagUsers : AuthResolved(u)
  \/ WpOpen
  \/ WpCancel
  \/ \E form \in PostForms : WpHandleSubmit(form)
  \/ \E ok \in BOOLEAN : WpInsertReply(ok)
  \/ \E ok \in BOOLEAN : FetchPostReply(ok)
  \/ \E ok \in BOOLEAN : LikesCountReply(ok)
  \/ \E ok \in BOOLEAN : LikeRowReply(ok)
  \/ \E id \in TagPosts : EpOpen(id)
  \/ \E ok \in BOOLEAN : EpFetchReply(ok)
  \/ \E form \in PostForms : EpHandleSubmit(form)
  \/ \E ok \in BOOLEAN : EpUpdateReply(ok)

SpecTags == Init /\ [][NextTags]_vars

\* the posts that collect a like in the feed scenarios: the oldest and the two
\* newest
FeedLikedPosts == {1, POSTS_PER_PAGE, MaxFeedPosts}

NextFeed ==
  \/ \E ok \in BOOLEAN : HpFetchReply(ok)
  \/ \E sort \in {"latest", "popular"} : handleSortChange(sort)
  \/ handleObserver
  \/ FeedPostCreated
  \/ \E p \in FeedLikedPosts : FeedPostLiked(p)

SpecFeed == Init /\ [][NextFeed]_vars

NextImage ==
  \/ \E u \in Users \cup {None} : AuthResolved(u)
  \/ \E site \in UploadSites, file \in Files : StartUpload(site, file)
  \/ \E file \in Files : handleEditAvatarSelect(file)
  \/ handleSaveProfile
  \/ \E w \in PipelineDims, h \in PipelineDims, encoded \in BOOLEAN : ResizeSettles(w, h, encoded)
  \/ \E ok \in BOOLEAN : UploadSettles(ok)

SpecImage == Init /\ [][NextImage]_vars

NextResize ==
  \E w \in ImageDims, h \in ImageDims, maxW \in ResizeBounds, maxH \in ResizeBounds,
     encoded \in BOOLEAN : ResizeCall(w, h, maxW, maxH, encoded)

SpecResize == Init /\ [][NextResize]_vars

\* ------------------------------------------------------------------------
\* Claims
\* ------------------------------------------------------------------------

\* C1 (as stated): at most one post-like request of the client is
\* outstanding at any time.
C1_AtMostOneLikeRequest == Cardinality(LikeReqs) <= 1

\* C1 (amended): while likingInProgress is set a further handleLikeToggle
\* call issues no request, so the mounted page instance has at most one
\* post-like request outstanding, and likingInProgress is set exactly while
\* it has one.
C1_OneLikeRequestPerInstance ==
  LET mine == {r \in LikeReqs : r.live} IN
    /\ Cardinality(mine) <= 1
    /\ pd_mounted => (likingInProgress <=> mine # {})
    /\ ~pd_mounted => mine = {}

C1_Witness ==
  /\ pd_lastToggle = "guarded"
  /\ likingInProgress
  /\ Cardinality({r \in LikeReqs : r.live}) = 1

\* C6: every post update or delete request the client sends selects only
\* posts whose user_id is the user signed in when it was sent, and the form
\* of the edit page holds only a post of the signed-in user.
C6_WritesTargetOwnPosts ==
  /\ \A w \in PostWritesInFlight : \A p \in WriteTargets(w) : PostOwner(p) = w.usr
  /\ EpFormShown => PostOwner(ep_post) = user

\* C2: a user has at most one like request outstanding per comment: while
\* one is in flight, a further handleToggleLike call on that comment sends
\* nothing.
C2_OneLikeRequestPerComment ==
  \A r1 \in CommentLikeReqs : \A r2 \in CommentLikeReqs :
    (r1.live /\ r2.live /\ r1.target = r2.target /\ r1.usr = r2.usr) => r1 = r2

\* C3: a new comment, a reply or an edit of more than 1000 characters is
\* rejected in the handler: the error toast is shown, no request is sent, and
\* the comment list and the text stay as they are; every content the client
\* writes has between 1 and 1000 characters after trimming.
C3_TooLongRejected ==
  /\ [](\A req \in cs_reqs :
          req.kind \in {"insertComment", "updateComment"} =>
            /\ TextLength(Trim(req.content)) >= 1
            /\ TextLength(Trim(req.content)) <= 1000)
  /\ [][/\ (handleSubmitComment /\ TextLength(cs_newComment) > 1000) =>
            /\ toast' = "commentTooLong"
            /\ UNCHANGED <<cs_reqs, cs_comments, cs_newComment, srvCommentVars>>
        /\ (SubmitReplyBox /\ TextLength(cs_replyContent) > 1000) =>
            /\ toast' = "replyTooLong"
            /\ UNCHANGED <<cs_reqs, cs_comments, cs_replyContent, srvCommentVars>>
        /\ (SaveEdit /\ TextLength(cs_editContent) > 1000) =>
            /\ toast' = "commentTooLong"
            /\ UNCHANGED <<cs_reqs, cs_comments, cs_editContent, srvCommentVars>>]_vars

\* a reply of 1001 characters has just been rejected, a comment of 1000
\* characters is on its way
C3_Witness ==
  /\ toast = "replyTooLong"
  /\ TextLength(cs_replyContent) > 1000
  /\ \E req \in cs_reqs : req.kind = "insertComment" /\ TextLength(req.content) = 1000

\* C4: a protected page is rendered only when the auth context has finished
\* loading and a user is signed in; while loading the route renders the
\* spinner (neither page nor redirect); loaded without a user it redirects,
\* and a redirect carries the protected path to /login.
C4_ProtectedOnlyWhenSignedIn ==
  /\ path \in ProtectedPaths =>
       /\ (RouteElement = "children") <=> (~authLoading /\ user # None)
       /\ authLoading => RouteElement = "spinner"
       /\ (~authLoading /\ user = None) => RouteElement = "redirect"
  /\ navFrom # None => (path = "/login" /\ navFrom \in ProtectedPaths)

C4_Witness ==
  /\ path = "/login"
  /\ navFrom \in ProtectedPaths
  /\ ~authLoading
  /\ user = None

\* C5: when the backend rejects a sign-in attempt, LoginPage shows an error
\* notification, does not show the success notification and schedules no
\* navigation away from /login, with or without 'remember me'.
C5_RejectedSignInReportsError ==
  (LoginPageMounted /\ lp_outcome \notin {None, "ok"}) =>
     /\ toast \in {"wrongEmailOrPassword", "loginFailed"}
     /\ lp_timer = None

\* C7: a soft delete keeps the row (the rows of post_comments stay, and the
\* reply count of a comment takes every row under it), and a comment or
\* reply whose deleted_at is set is rendered as the placeholder, in edit
\* mode too.
C7_DeletedRenderedRedacted ==
  /\ \A row \in SeedComments : \E kept \in srv_comments : kept.id = row.id
  /\ \A c \in cs_comments :
       /\ c.repliesCount = Cardinality({row \in srv_comments : row.parent = c.id})
       /\ c.deleted => CommentBody(c) = "placeholder"
       /\ \A r \in c.replies : r.deleted => ReplyBody(r) = "placeholder"

\* the user's own comment, deleted while in edit mode, is in the list, and so
\* is its deleted reply
C7_Witness ==
  \E c \in cs_comments :
    /\ c.owner = user
    /\ c.deleted
    /\ cs_editingId = c.id
    /\ \E r \in ShownReplies(c) : r.deleted

\* C8: every insert of a comment carries parent_id null or the id of a
\* top-level comment of the list, and every row has a parent that is null or
\* top-level; a reply to a reply goes under that reply's parent.
C8_OneLevelOfNesting ==
  /\ \A req \in CommentInserts :
       req.parent # 0 =>
         /\ req.live => \E c \in req.snap : c.id = req.parent
         /\ \E row \in srv_comments : row.id = req.parent /\ row.parent = 0
  /\ \A row \in srv_comments :
       row.parent # 0 => \E top \in srv_comments : top.id = row.parent /\ top.parent = 0

\* a reply written in the box under a reply is on its way to the parent of
\* that reply
C8_Witness ==
  \E req \in CommentInserts :
    /\ req.live
    /\ req.parent # 0
    /\ \E c \in cs_comments :
         c.id = req.parent /\ \E r \in c.replies : r.id = cs_replyingTo

\* C9: validateImageFile returns valid exactly when the MIME type is one of
\* jpeg, jpg, png, gif, webp and the size is at most 5 MB; otherwise it
\* returns an error, the type error before the size error; and no resize or
\* upload is in progress for a file that fails validation.
C9_TypeOk(file) ==
  file.type \in {"image/jpeg", "image/jpg", "image/png", "image/gif", "image/webp"}

C9_SizeOk(file) == file.size <= 5 * 1024 * 1024

C9_ValidationGatesUpload ==
  /\ \A c \in img_last :
       /\ c.result.valid <=> (C9_TypeOk(c.file) /\ C9_SizeOk(c.file))
       /\ ~C9_TypeOk(c.file) => c.result.error = TypeError
       /\ (C9_TypeOk(c.file) /\ ~C9_SizeOk(c.file)) => c.result.error = SizeError
  /\ \A job \in img_jobs : C9_TypeOk(job.file) /\ C9_SizeOk(job.file)
  /\ \A file \in editAvatarFile : C9_TypeOk(file) /\ C9_SizeOk(file)

C9_Witness ==
  /\ \E c \in img_last : ~c.result.valid /\ c.file.size > MAX_FILE_SIZE
                         /\ c.file.type \notin ALLOWED_IMAGE_TYPES
  /\ \E job \in img_jobs : job.stage = "upload" /\ job.file.size = MAX_FILE_SIZE

LikeViews(comments) ==
  {[id |-> c.id, isLiked |-> c.isLiked, likesCount |-> c.likesCount] : c \in comments}
    \cup UNION {{[id |-> r.id, isLiked |-> r.isLiked, likesCount |-> r.likesCount] :
                   r \in c.replies} : c \in comments}

\* C13: the like of a comment or reply is shown optimistically: the step in
\* which the signed-in user presses the heart, and the request is sent,
\* already flips isLiked of that comment or reply and moves its likesCount
\* by exactly 1.
C13_LikeShownBeforeReply ==
  [][(ClickLike /\ user # None) =>
       \A req \in cs_reqs' \ cs_reqs :
         \A x \in LikeViews(cs_comments) :
           x.id = req.target =>
             \E y \in LikeViews(cs_comments') :
               /\ y.id = x.id
               /\ y.isLiked = ~x.isLiked
               /\ y.likesCount = IF x.isLiked THEN x.likesCount - 1 ELSE x.likesCount + 1]_vars

\* C15: the edit and delete buttons are on screen only for comments and
\* replies of the signed-in user whose deleted_at is not set, and no update
\* of handleEditComment or handleDeleteComment is sent for a row whose
\* deleted_at is set.
C15_ControlsOnlyOnOwnLiveComments ==
  /\ [](PdRendered =>
          \A c \in cs_comments :
            /\ CommentOwnerButtons(c) => (c.owner = user /\ ~c.deleted)
            /\ \A r \in ShownReplies(c) : ReplyOwnerButtons(r) => (r.owner = user /\ ~r.deleted))
  /\ [][(ClickDelete \/ SaveEdit) =>
          \A req \in cs_reqs' \ cs_reqs :
            \A row \in srv_comments : row.id = req.target => ~row.deleted]_vars

\* C12: generateSlug gives different slugs for the same title at two
\* different values of Date.now().
C12_SlugsDifferAcrossTime ==
  [][\A c \in slug_last : \A d \in slug_last' :
       (c.title = d.title /\ c.now # d.now) => c.slug # d.slug]_vars

\* s has no two hyphens next to each other
C20_NoHyphenRun(s) == \A i \in 1..(Len(s) - 1) : ~(s[i] = "-" /\ s[i + 1] = "-")

\* C20: the slug generateSlug returns has no run of two or more hyphens, and
\* is a part of at most 50 characters followed by a hyphen and exactly 6
\* digits.
C20_SlugShape ==
  \A c \in slug_last :
    /\ C20_NoHyphenRun(c.slug)
    /\ \E k \in 0..50 :
         /\ Len(c.slug) = k + 7
         /\ c.slug[k + 1] = "-"
         /\ \A i \in (k + 2)..(k + 7) :
              c.slug[i] \in {"0", "1", "2", "3", "4", "5", "6", "7", "8", "9"}

\* C14: a sign-in submitted on /login after a redirect from the protected
\* path P carries P, one submitted on a /login visited directly carries '/';
\* when the backend accepts it LoginPage schedules the navigation to that
\* path, and the navigation goes there.
C14_LoginReturnsToOrigin ==
  [][/\ LoginSubmit(TRUE) =>
          \A req \in lp_req' :
            req.from = IF path = "/login" /\ navFrom \in ProtectedPaths THEN navFrom ELSE "/"
     /\ \A req \in lp_req : \A u \in Users :
          (LoginReply("ok", u) /\ req \notin lp_req') =>
             (toast' = "loginSuccess" /\ lp_timer' = req.from)
     /\ LoginTimerFires => (path' = lp_timer /\ navFrom' = None)]_vars

\* the visitor, sent to /login from a protected path, has signed in there
\* and the navigation back to that path is scheduled
C14_Witness ==
  /\ path = "/login"
  /\ navFrom \in ProtectedPaths
  /\ user # None
  /\ lp_outcome = "ok"
  /\ toast = "loginSuccess"
  /\ lp_timer = navFrom

\* C17: every password handed to signUp has at least 8 characters and is the
\* confirmed password the user typed.
C17_SentPasswordChecked ==
  \A req \in su_reqs :
    /\ TextLength(req.password) >= 8
    /\ req.password = req.confirm

\* list has no entry twice
C18_NoDuplicates(list) ==
  \A i \in 1..Len(list) : \A j \in 1..Len(list) : list[i] = list[j] => i = j

\* C18: the recent-search list always holds at most 5 entries, none twice
\* and none empty; after a search it has the trimmed query first and equals
\* the list stored under 'recentSearches'; a search for a query of the list
\* moves it to the front and leaves the length as it is, and a blank query
\* changes nothing.
C18_RecentSearchesKept ==
  /\ [](/\ Len(nb_recent) <= 5
        /\ C18_NoDuplicates(nb_recent)
        /\ \A i \in 1..Len(nb_recent) : nb_recent[i] # "")
  /\ [][/\ (SearchTyped \/ \E i \in 1..5 : SearchRecent(i)) =>
             /\ nb_recent' # <<>>
             /\ nb_recent' = ls_recent'
             /\ nb_searchQuery.word \in {nb_recent[i] : i \in 1..Len(nb_recent)} =>
                  Len(nb_recent') = Len(nb_recent)
        /\ SearchTyped => nb_recent'[1] = nb_searchQuery.word
        /\ nb_searchQuery.word = "" =>
             (UNCHANGED nb_recent \/ \E i \in 1..5 : SearchRecent(i))]_vars

\* the list is full and stored; a sixth word was searched, and after it a
\* word of the list, which moved to the front
C18_Witness ==
  /\ Len(nb_recent) = 5
  /\ nb_recent = ls_recent
  /\ nb_recent[1] = "q1"
  /\ nb_recent[2] = "q6"
  /\ path = "/search"

\* C16: a post submitted on the write or the edit page with more than 5
\* tags in the tag input is rejected with the 'at most 5 tags' toast, and no
\* insert or update is sent for it.
C16_TooManyTagsRejected ==
  /\ [](/\ \A req \in wp_reqs : req.typed <= 5
        /\ \A req \in ep_reqs : req.kind = "update" => req.typed <= 5)
  /\ [][\A form \in PostForms :
          (form.filled /\ Len(TypedTags(form.tags)) > 5) =>
             /\ WpHandleSubmit(form) => (toast' = "tooManyTags" /\ UNCHANGED wp_reqs)
             /\ EpHandleSubmit(form) => (toast' = "tooManyTags" /\ UNCHANGED ep_reqs)]_vars

\* C11: with 'popular' selected, the list on screen is in the order of
\* non-increasing score (likes_count + comments_count), whatever pages have
\* been loaded.
C11_PopularFeedSorted ==
  (hp_sortBy = "popular" /\ ~hp_loading) =>
     \A i \in 1..(Len(hp_posts) - 1) : hp_posts[i].score >= hp_posts[i + 1].score

\* Top-level comments of the post on screen that are not in the list.
MoreCommentsExist ==
  \E row \in TopLevelComments(pd_id) : \A c \in cs_comments : c.id # row.id

\* C19: after a fetch of comments, hasMore is true exactly when the post has
\* top-level comments beyond those loaded; it is false once all are loaded.
C19_HasMoreIffMoreComments ==
  [][(CsFetchCommentsReply(TRUE) \/ CsFetchMoreReply(TRUE)) =>
       (cs_hasMore' = MoreCommentsExist')]_vars

\* req is a post like request of the mounted page, and this step is its answer
LikeAnswered(req) == req \in LikeReqs /\ req.live /\ pd_reqs' = pd_reqs \ {req}

\* C21: a like toggle of a post that started a request clears
\* likingInProgress when the request is answered, and it is answered; a failed
\* request raises the error notification and changes neither isLiked nor
\* likesCount; a successful one leaves isLiked the opposite of what the toggle
\* saw and moves likesCount by exactly 1.
C21_LikeToggleSettles ==
  /\ [][/\ LikeReply(FALSE) =>
             (toast' = "likeFailed" /\ isLiked' = isLiked /\ likesCount' = likesCount)
        /\ \A req \in LikeReqs :
             LikeAnswered(req) =>
               /\ ~likingInProgress'
               /\ ~LikeReply(FALSE) =>
                    /\ isLiked' = (req.kind = "likeInsert")
                    /\ likesCount' = IF req.kind = "likeInsert" THEN likesCount + 1
                                     ELSE likesCount - 1]_vars
  /\ (likingInProgress ~> ~likingInProgress)

\* a toggle of the mounted page failed: the notification is up, the button
\* is free again and the like is not shown
C21_Witness ==
  /\ PdRendered
  /\ pd_lastToggle = "started"
  /\ toast = "likeFailed"
  /\ ~likingInProgress
  /\ ~isLiked
  /\ LikeReqs = {}

\* C22: once no fetch of the home feed is outstanding, the list on screen is
\* made of pages 0, 1, ... fetched for the sort option that is selected; no
\* page fetched for another option is in it.
C22_FeedFromCurrentSort ==
  hp_reqs = {} =>
    \A i \in 1..Len(hp_sources) :
      hp_sources[i].sort = hp_sortBy /\ hp_sources[i].page = i - 1

\* C23: on the search page, once no search is outstanding, the posts and
\* profiles in state are those the backend finds for the q of the URL (or
\* none, when the only search of the page failed): never those of another
\* query.
C23_ResultsOfCurrentQuery ==
  (path = "/search" /\ sp_query # "" /\ sp_reqs = {}) =>
     \/ sp_posts = FoundPosts(sp_query) /\ sp_profiles = FoundProfiles(sp_query)
     \/ sp_posts = {} /\ sp_profiles = {}

\* What the backend holds for a comment or reply x on screen: the visitor's
\* like and the number of likes.
LikeShownRight(x) ==
  /\ x.isLiked = (user # None /\ <<user, x.id>> \in srv_commentLikes)
  /\ x.likesCount = CommentLikeCount(x.id)

\* C24: with no request of the comment section in flight, every comment
\* shows its like state as the backend holds it, and every expanded comment
\* shows its replies with theirs: no update of the list was lost to another
\* one that was in flight at the same time.
C24_NoLostCommentUpdate ==
  (PdRendered /\ ~cs_loading /\ cs_reqs = {} /\ cs_timers = {}) =>
     \A c \in cs_comments :
       /\ LikeShownRight(c)
       /\ c.id \in cs_showReplies =>
            /\ {r.id : r \in c.replies} = {row.id : row \in {x \in srv_comments : x.parent = c.id}}
            /\ \A r \in c.replies : LikeShownRight(r)

====
